---- MODULE Spec2Model ----
(***************************************************************************)
(* log4go (ccpaging): the rotating file sink.                              *)
(*                                                                         *)
(*   FileLogWriter  (filelog.go)   producers, message queue, write loop    *)
(*   FileWriter     (filewriter.go) file handle and bufio buffer           *)
(*   FileRotate     (filerotate.go) the Rotation Shifter                   *)
(*                                                                         *)
(* Every goroutine is a process with a program counter; one action is one  *)
(* step between two points where another goroutine can observe or change   *)
(* shared state (a channel operation, a mutex-protected FileWriter method, *)
(* a system call, an unsynchronised field access).                         *)
(***************************************************************************)
EXTENDS Integers, Sequences, FiniteSets, TLC

(***************************************************************************)
(* Bounds of the model.                                                    *)
(***************************************************************************)
\* goroutines that call LogWrite
NumProducers == 2
\* records passed to LogWrite in one run
MaxMsgs == 2
\* records passed to LogWrite in SpecBack
BackMsgs == 4
\* firings of the rotation timer in one run
MaxTicks == 1
\* capacity of the message queue (DefaultBufferLength, a package variable;
\* the tests also run with 0, which Init offers too)
MaxBuf == 1
\* capacity of FileRotate.files (DefaultRotateLen, a package variable)
RotateLen == 2
\* lines the bufio buffer holds before it flushes on its own
FlushLines == 2
\* SetOption("cycle") calls made while the writer is in use
MaxSets == 1
\* calls of FileLogWriter.Close
MaxCloses == 1
\* SetOption and PropToFileLogWriter calls on a writer under configuration
MaxOptCalls == 2
\* properties of a file filter besides its filename
MaxProps == 2
\* Rotate calls made by the direct caller of FileRotate
MaxRots == 4
\* maxrotate of the direct caller of FileRotate
RotSlots == 3
\* the rotation threshold, in lines, where rotation by size is examined
SizeMax == 1
\* timer ticks where rotation by size is examined
SizeTicks == 2
\* days of the calendar
MaxDays == 4
\* the clock advances MaxClock times by ClockStep seconds
MaxClock == 2
ClockStep == 43200
\* half hours at which nextRotateTime is examined
MaxNow == 100

(***************************************************************************)
(* Tokens written to a file: a record k is the line k >= 1.                *)
(***************************************************************************)
HeaderTok == 0
FooterTok == -1
\* the value SetOption and the write loop store for a cycle below 2
CycleReset == 86400
\* capacity of the reset-signal channel
ResetCap == 5

Producers == 1 .. NumProducers
LoopIds == 1 .. (MaxMsgs + 1)
WorkerIds == 1 .. (MaxTicks + MaxRots)

(***************************************************************************)
(* File names.  0 is the active log file (f.filename), n in 1..maxrotate   *)
(* is the numbered backup <base>.00n<ext>, TmpName(k) is the timestamped   *)
(* name of the k-th rotation, Gone marks an inode with no name left.       *)
(***************************************************************************)
ActiveName == 0
Gone == -1
TmpBase == 100
TmpName(k) == TmpBase + k
SlotName(n) == n

VARIABLES
    \* ---- configuration (fields of FileLogWriter set before the first write)
    cfg,          \* [maxrotate, maxsize, header, footer, mcap, old, msgs,
                  \*  ticks, prior, closes, faults, cal]
    now,          \* time.Now(), in seconds
    cycle,        \* f.cycle
    delay0,       \* f.delay0
    \* ---- FileLogWriter
    isRunLoop,    \* f.isRunLoop
    messages,     \* f.messages: the buffered lines
    msgClosed,    \* f.messages has been closed
    closedLoop,   \* f.closedLoop has been closed
    resetLoop,    \* number of signals waiting in f.resetLoop
    \* ---- goroutines
    prod,         \* producer p: [pc, msg]
    nextMsg,      \* records passed to LogWrite so far + 1
    loop,         \* write loop l: [pc, msg, ok, ws, oc, od, tmp, nrt]
    nloops,       \* write loops started so far
    closer,       \* the goroutine calling Close: pc
    nsets,        \* SetOption calls so far
    ticks,        \* timer firings so far
    \* ---- FileWriter
    fwFile,       \* fw.file: 0 (nil) or the inode the handle is open on
    fwOff,        \* the handle's file offset
    fwBuf,        \* fw.bufWriter: lines not yet flushed
    handles,      \* open OS handles of this writer, referenced or not
    \* ---- file system
    inodes,       \* sequence of [name, data]
    \* ---- FileRotate
    rcount,       \* r.count
    rfiles,       \* r.files: queued temporary names
    rClosed,      \* r.files has been closed
    worker,       \* shifter goroutine w: [pc, file, n, rotate]
    nworkers,     \* shifter goroutines started so far
    nrot,         \* rotations handed to Rotate so far
    notRotated,   \* names reported "Not rotate" by FileRotate.Close
    driver,       \* a goroutine calling Rotate directly: [pc, file]
    \* ---- run-time failure of the process
    panic,
    \* ---- history (observers, read by no action)
    hist,         \* [enq, wrote, atClose, next, quiet, resets, atReset,
                  \*  skipped]
    \* ---- Logger
    logger,       \* the Logger: tag -> [Level, LogWriter]
    writers,      \* the LogWriters constructed so far: [kind, enabled,
                  \* closed, recs]
    exited,       \* os.Exit(1) was called
    calls,        \* history: [adds, logs, closes, loads, conf]
    \* ---- a FileLogWriter under configuration, before its first line
    flw,          \* its options: [filename, format, header, footer, flush,
                  \*  maxsize, maxrotate, cycle, delay0]
    ocall,        \* history: the last call, [op, name, v, props, err, n]
    \* ---- a SetOption("cycle") call made while the write loop runs
    setter        \* its position: "idle", "clamp", "signal"

loggerVars == << logger, writers, exited, calls >>

optVars == << flw, ocall, setter >>

\* the variables that no action of the FileLogWriter in use changes
logVars == << loggerVars, optVars >>

useVars == << cfg, now, cycle, delay0, isRunLoop, messages, msgClosed,
              closedLoop, resetLoop, prod, nextMsg, loop, nloops, closer,
              nsets, ticks, fwFile, fwOff, fwBuf, handles, inodes, rcount,
              rfiles, rClosed, worker, nworkers, nrot, notRotated, driver,
              panic, hist >>

\* the variables that no action of the Logger changes
fileVars == << useVars, optVars >>

vars == << logVars, cfg, now, cycle, delay0, isRunLoop, messages, msgClosed, closedLoop,
           resetLoop, prod, nextMsg, loop, nloops, closer, nsets, ticks,
           fwFile, fwOff, fwBuf, handles, inodes, rcount, rfiles, rClosed,
           worker, nworkers, nrot, notRotated, driver, panic, hist >>

writerVars == << logVars, cfg, now, cycle, delay0, isRunLoop, messages, msgClosed, closedLoop,
                 resetLoop, prod, nextMsg, loop, nloops, closer, nsets, ticks,
                 fwFile, fwOff, fwBuf, handles >>
rotVars == << rcount, rfiles, rClosed, worker, nworkers, nrot, notRotated, driver >>

(***************************************************************************)
(* File system: os.Lstat, os.OpenFile(O_CREATE|O_APPEND), os.Rename,       *)
(* os.Remove on a sequence of inodes.                                      *)
(***************************************************************************)
Lookup(fs, name) ==
    IF \E i \in 1 .. Len(fs) : fs[i].name = name
    THEN CHOOSE i \in 1 .. Len(fs) : fs[i].name = name
    ELSE 0

Exists(fs, name) == Lookup(fs, name) # 0

FileSize(fs, name) ==
    IF Exists(fs, name) THEN Len(fs[Lookup(fs, name)].data) ELSE 0

\* os.Remove: the name goes, the inode stays for whoever has it open
Remove(fs, name) ==
    IF Exists(fs, name)
    THEN [fs EXCEPT ![Lookup(fs, name)].name = Gone]
    ELSE fs

\* os.Rename: fails (no change) when src is missing, replaces dst otherwise
Rename(fs, src, dst) ==
    IF ~Exists(fs, src) THEN fs
    ELSE LET cleared == Remove(fs, dst)
         IN  [cleared EXCEPT ![Lookup(fs, src)].name = dst]

\* os.OpenFile(name, O_WRONLY|O_APPEND|O_CREATE): the file system afterwards
Create(fs, name) ==
    IF Exists(fs, name) THEN fs
    ELSE Append(fs, [name |-> name, data |-> << >>])

(***************************************************************************)
(* FileWriter (filewriter.go).  The state is (fwFile, fwOff, fwBuf,        *)
(* handles) and the file system; each operator gives one component of the  *)
(* state after the method.                                                 *)
(***************************************************************************)
\* bufio.Writer.Flush on a handle opened O_APPEND: the buffered lines go to
\* the end of the inode, and the offset moves to the new end
FlushedInodes(fs, file, buf) ==
    IF file = 0 \/ buf = << >> THEN fs
    ELSE [fs EXCEPT ![file].data = @ \o buf]

FlushedOff(fs, file, off, buf) ==
    IF file = 0 \/ buf = << >> THEN off
    ELSE Len(fs[file].data) + Len(buf)

\* FileWriter.Seek(0, os.SEEK_CUR)
SeekCur(fs, file, off) ==
    IF file # 0 THEN off ELSE FileSize(fs, ActiveName)

\* FileWriter.Close: flush, close the handle, clear the fields
FwClose ==
    /\ inodes' = FlushedInodes(inodes, fwFile, fwBuf)
    /\ handles' = IF fwFile = 0 THEN handles ELSE handles - 1
    /\ fwFile' = 0
    /\ fwOff' = 0
    /\ fwBuf' = << >>

\* FileWriter.Flush
FwFlush ==
    /\ inodes' = FlushedInodes(inodes, fwFile, fwBuf)
    /\ fwOff' = FlushedOff(inodes, fwFile, fwOff, fwBuf)
    /\ fwBuf' = << >>
    /\ UNCHANGED << fwFile, handles >>

\* FileWriter.open: a new handle and a new bufio.Writer replace the fields
FwOpen ==
    /\ inodes' = Create(inodes, ActiveName)
    /\ fwFile' = Lookup(inodes', ActiveName)
    /\ fwOff' = 0
    /\ fwBuf' = << >>
    /\ handles' = handles + 1

\* fmt.Fprint(fw.writer, tok): into the buffer, which flushes when it is full
FwPrint(tok) ==
    IF Len(fwBuf) >= FlushLines
    THEN /\ inodes' = FlushedInodes(inodes, fwFile, fwBuf)
         /\ fwOff' = FlushedOff(inodes, fwFile, fwOff, fwBuf)
         /\ fwBuf' = << tok >>
         /\ UNCHANGED << fwFile, handles >>
    ELSE /\ fwBuf' = Append(fwBuf, tok)
         /\ UNCHANGED << inodes, fwOff, fwFile, handles >>

fwVars == << fwFile, fwOff, fwBuf, handles, inodes >>

(***************************************************************************)
(* A panic ends the process: no goroutine takes a step afterwards.         *)
(***************************************************************************)
Alive == panic = "none"

\* the outcomes of a system call: it fails only where I/O errors are injected
Faults == IF cfg.faults THEN BOOLEAN ELSE {FALSE}

Panic(why) ==
    /\ panic' = why
    /\ UNCHANGED << logVars, cfg, now, cycle, delay0, isRunLoop, messages, msgClosed,
                    closedLoop, resetLoop, prod, nextMsg, loop, nloops, closer,
                    nsets, ticks, fwFile, fwOff, fwBuf, handles, inodes,
                    rcount, rfiles, rClosed, worker, nworkers, nrot,
                    notRotated, driver, hist >>

(***************************************************************************)
(* FileLogWriter.LogWrite (filelog.go 216-222)                             *)
(***************************************************************************)
\* the caller evaluates !f.isRunLoop
LW_Call(p) ==
    /\ Alive
    /\ prod[p].pc = "idle"
    /\ nextMsg <= cfg.msgs
    /\ prod' = [prod EXCEPT ![p] = [pc |-> IF isRunLoop THEN "send" ELSE "start",
                                    msg |-> nextMsg]]
    /\ nextMsg' = nextMsg + 1
    /\ UNCHANGED << logVars, cfg, now, cycle, delay0, isRunLoop, messages, msgClosed,
                    closedLoop, resetLoop, loop, nloops, closer, nsets, ticks,
                    fwVars, rotVars, panic, hist >>

NewLoop == [pc |-> "init", msg |-> 0, ok |-> TRUE, ws |-> "msg",
            oc |-> 0, od |-> 0, tmp |-> 0, nrt |-> 0]

\* f.isRunLoop = true; go f.writeLoop()
LW_Start(p) ==
    /\ Alive
    /\ prod[p].pc = "start"
    /\ isRunLoop' = TRUE
    /\ nloops' = nloops + 1
    /\ loop' = [loop EXCEPT ![nloops + 1] = NewLoop]
    /\ prod' = [prod EXCEPT ![p].pc = "send"]
    /\ UNCHANGED << logVars, cfg, now, cycle, delay0, messages, msgClosed, closedLoop,
                    resetLoop, nextMsg, closer, nsets, ticks, fwVars, rotVars,
                    panic, hist >>

\* f.messages <- line, on a queue with room (a queue of capacity 0 hands the
\* line over in L_Recv); a send on the closed queue panics
LW_Send(p) ==
    /\ Alive
    /\ prod[p].pc = "send"
    /\ IF msgClosed
       THEN Panic("send on closed channel")
       ELSE /\ Len(messages) < cfg.mcap
            /\ messages' = Append(messages, prod[p].msg)
            /\ prod' = [prod EXCEPT ![p].pc = "idle"]
            /\ hist' = [hist EXCEPT !.enq = Append(@, prod[p].msg)]
            /\ UNCHANGED << logVars, cfg, now, cycle, delay0, isRunLoop, msgClosed,
                            closedLoop, resetLoop, nextMsg, loop, nloops,
                            closer, nsets, ticks, fwVars, rotVars, panic >>

(***************************************************************************)
(* FileLogWriter.SetOption("cycle", v) (filelog.go 297-315), called while  *)
(* the writer is in use.                                                   *)
(***************************************************************************)
CycleInputs == {3}

\* a cycle below 2 becomes 2
ClampCycle_Min(c) == IF c < 2 THEN 2 ELSE c

\* lines 309-312 (and 178-181 in the write loop): if f.cycle < 2
\* { f.cycle = 86400 }
ClampCycle(c) == IF c < 2 THEN CycleReset ELSE c

SetCycle(v) ==
    /\ Alive
    /\ nsets < MaxSets
    /\ nsets' = nsets + 1
    /\ cycle' = ClampCycle(v)
    /\ IF isRunLoop
       THEN /\ resetLoop < ResetCap
            /\ resetLoop' = resetLoop + 1
       ELSE UNCHANGED resetLoop
    /\ UNCHANGED << logVars, cfg, now, delay0, isRunLoop, messages, msgClosed, closedLoop,
                    prod, nextMsg, loop, nloops, closer, ticks, fwVars,
                    rotVars, panic, hist >>

(***************************************************************************)
(* Local time.  Instants are seconds since the midnight that begins day 1  *)
(* of the calendar; cfg.cal lists the lengths of the first days, which     *)
(* differ from 24 hours on the days the zone changes its offset, and every *)
(* later day has 24 hours.                                                 *)
(***************************************************************************)
Hour == 3600

DayLen(d) == IF d \in DOMAIN cfg.cal THEN cfg.cal[d] ELSE 24 * Hour

\* time.Date(y, m, d, 0, 0, 0, 0, loc): the instant at which day d begins
RECURSIVE DayStart(_)
DayStart(d) == IF d <= 1 THEN 0 ELSE DayStart(d - 1) + DayLen(d - 1)

\* t.Year(), t.Month(), t.Day(): the day that instant t lies in
DayOf(t) == CHOOSE d \in 1 .. MaxDays : DayStart(d) <= t /\ t < DayStart(d + 1)

\* FileLogWriter.nextRotateTime (filelog.go 128-141), with t = time.Now()
nextRotateTime(t, c, d0) ==
    IF d0 < 0
    THEN t + c
    ELSE DayStart(DayOf(t + 24 * Hour)) + d0

\* time passes
Clock ==
    /\ Alive
    /\ now < MaxClock * ClockStep
    /\ now' = now + ClockStep
    /\ UNCHANGED << logVars, cfg, cycle, delay0, isRunLoop, messages, msgClosed,
                    closedLoop, resetLoop, prod, nextMsg, loop, nloops, closer,
                    nsets, ticks, fwVars, rotVars, panic, hist >>

\* FileLogWriter.SetOption("delay0", v) (filelog.go 316-330)
DelayInputs == {-1, Hour}

SetDelay0(v) ==
    /\ Alive
    /\ nsets < MaxSets
    /\ nsets' = nsets + 1
    /\ delay0' = v
    /\ IF isRunLoop
       THEN /\ resetLoop < ResetCap
            /\ resetLoop' = resetLoop + 1
       ELSE UNCHANGED resetLoop
    /\ UNCHANGED << logVars, cfg, now, cycle, isRunLoop, messages, msgClosed, closedLoop,
                    prod, nextMsg, loop, nloops, closer, ticks, fwVars,
                    rotVars, panic, hist >>

(***************************************************************************)
(* FileLogWriter.writeLoop (filelog.go 143-193)                            *)
(***************************************************************************)
At(l, pc) == Alive /\ loop[l].pc = pc

loopFrame == << logVars, cfg, now, delay0, isRunLoop, msgClosed, closedLoop, prod, nextMsg,
                nloops, closer, nsets, panic >>

\* lines 151-154: nrt, old_cycle, old_delay0, the timer
L_Init(l) ==
    /\ At(l, "init")
    /\ loop' = [loop EXCEPT ![l].pc = "select", ![l].oc = cycle, ![l].od = delay0,
                            ![l].nrt = nextRotateTime(now, cycle, delay0)]
    /\ UNCHANGED << loopFrame, cycle, messages, resetLoop, ticks, fwVars,
                    rotVars, hist >>

\* where writeMessage starts for the line just received (lines 196-200)
AfterRecv(msg) ==
    IF msg = 0 THEN "lenchk"
    ELSE IF cfg.header THEN "hdr_seek" ELSE "ws_chk"

\* case msg, ok := <-f.messages, from the buffer or from the closed queue
L_Recv(l) ==
    /\ At(l, "select")
    /\ \/ /\ Len(messages) > 0
          /\ messages' = Tail(messages)
          /\ loop' = [loop EXCEPT ![l].pc = AfterRecv(Head(messages)),
                                  ![l].msg = Head(messages), ![l].ok = TRUE,
                                  ![l].ws = "msg"]
       \/ /\ Len(messages) = 0
          /\ msgClosed
          /\ UNCHANGED messages
          /\ loop' = [loop EXCEPT ![l].pc = "lenchk", ![l].msg = 0,
                                  ![l].ok = FALSE]
    /\ UNCHANGED << loopFrame, cycle, resetLoop, ticks, fwVars, rotVars, hist >>

\* the same receive on a queue of capacity 0: the line passes from a producer
\* blocked in its send straight to the loop
L_RecvDirect(l, p) ==
    /\ At(l, "select")
    /\ cfg.mcap = 0
    /\ ~msgClosed
    /\ prod[p].pc = "send"
    /\ prod' = [prod EXCEPT ![p].pc = "idle"]
    /\ loop' = [loop EXCEPT ![l].pc = AfterRecv(prod[p].msg),
                            ![l].msg = prod[p].msg, ![l].ok = TRUE,
                            ![l].ws = "msg"]
    /\ hist' = [hist EXCEPT !.enq = Append(@, prod[p].msg)]
    /\ UNCHANGED << logVars, cfg, now, cycle, delay0, isRunLoop, messages, msgClosed,
                    closedLoop, resetLoop, nextMsg, nloops, closer, nsets,
                    ticks, fwVars, rotVars, panic >>

\* case <-timer.C (lines 168-173): re-arm, then intRotate
L_Tick(l) ==
    /\ At(l, "select")
    /\ ticks < cfg.ticks
    /\ ticks' = ticks + 1
    /\ loop' = [loop EXCEPT ![l].pc = "rot_seek", ![l].nrt = @ + cycle]
    /\ UNCHANGED << loopFrame, cycle, messages, resetLoop, fwVars, rotVars,
                    hist >>

\* a reset that empties the queue when it re-arms the timer
L_Reset_Drop(l) ==
    /\ At(l, "select")
    /\ resetLoop > 0
    /\ resetLoop' = resetLoop - 1
    /\ IF loop[l].oc = cycle /\ loop[l].od = delay0
       THEN /\ hist' = [hist EXCEPT !.skipped = @ + 1]
            /\ UNCHANGED << cycle, loop, messages >>
       ELSE /\ cycle' = ClampCycle(cycle)
            /\ loop' = [loop EXCEPT ![l].oc = cycle', ![l].od = delay0,
                                    ![l].nrt = nextRotateTime(now, cycle', delay0)]
            /\ hist' = [hist EXCEPT !.resets = @ + 1, !.atReset = messages]
            /\ messages' = << >>
    /\ UNCHANGED << loopFrame, ticks, fwVars, rotVars >>

\* a loop that recomputes the next instant on every reset signal
L_Reset_Always(l) ==
    /\ At(l, "select")
    /\ resetLoop > 0
    /\ resetLoop' = resetLoop - 1
    /\ cycle' = ClampCycle(cycle)
    /\ loop' = [loop EXCEPT ![l].oc = cycle', ![l].od = delay0,
                            ![l].nrt = nextRotateTime(now, cycle', delay0)]
    /\ hist' = IF loop[l].oc = cycle /\ loop[l].od = delay0
               THEN [hist EXCEPT !.skipped = @ + 1]
               ELSE [hist EXCEPT !.resets = @ + 1, !.atReset = messages]
    /\ UNCHANGED << loopFrame, messages, ticks, fwVars, rotVars >>

\* case <-f.resetLoop (lines 174-187)
L_Reset(l) ==
    /\ At(l, "select")
    /\ resetLoop > 0
    /\ resetLoop' = resetLoop - 1
    /\ IF loop[l].oc = cycle /\ loop[l].od = delay0
       THEN /\ hist' = [hist EXCEPT !.skipped = @ + 1]
            /\ UNCHANGED << cycle, loop >>
       ELSE /\ cycle' = ClampCycle(cycle)
            /\ loop' = [loop EXCEPT ![l].oc = cycle', ![l].od = delay0,
                                    ![l].nrt = nextRotateTime(now, cycle', delay0)]
            /\ hist' = [hist EXCEPT !.resets = @ + 1, !.atReset = messages]
    /\ UNCHANGED << loopFrame, messages, ticks, fwVars, rotVars >>

\* writeMessage, lines 200-201: Seek decides whether the header is written
L_HdrSeek(l) ==
    /\ At(l, "hdr_seek")
    /\ loop' = [loop EXCEPT
                  ![l].ws = IF SeekCur(inodes, fwFile, fwOff) <= 0
                            THEN "hdr" ELSE "msg",
                  ![l].pc = "ws_chk"]
    /\ UNCHANGED << loopFrame, cycle, messages, resetLoop, ticks, fwVars,
                    rotVars, hist >>

Token(l) ==
    CASE loop[l].ws = "hdr" -> HeaderTok
      [] loop[l].ws = "foot" -> FooterTok
      [] OTHER -> loop[l].msg

\* where the loop goes after the header, the line or the footer is written
AfterPut(l) ==
    CASE loop[l].ws = "hdr" -> "ws_chk"
      [] loop[l].ws = "foot" -> "rot_close"
      [] OTHER -> "lenchk"

\* FileWriter.WriteString, line 100: if fw.file == nil (read without the lock)
L_WsChk(l) ==
    /\ At(l, "ws_chk")
    /\ loop' = [loop EXCEPT ![l].pc = IF fwFile = 0 THEN "ws_open" ELSE "ws_put"]
    /\ UNCHANGED << loopFrame, cycle, messages, resetLoop, ticks, fwVars,
                    rotVars, hist >>

\* FileWriter.WriteString, line 101: fw.open
L_WsOpen(l) ==
    /\ At(l, "ws_open")
    /\ \E fail \in Faults :
          IF fail
          THEN /\ loop' = [loop EXCEPT ![l].pc = AfterPut(l), ![l].ws = "msg"]
               /\ UNCHANGED fwVars
          ELSE /\ FwOpen
               /\ loop' = [loop EXCEPT ![l].pc = "ws_put"]
    /\ UNCHANGED << loopFrame, cycle, messages, resetLoop, ticks, rotVars,
                    hist >>

\* a write loop that gives up at the first failed write
L_WsPut_Fatal(l) ==
    /\ At(l, "ws_put")
    /\ IF fwFile = 0
       THEN Panic("nil writer")
       ELSE /\ \E fail \in Faults :
                 IF fail
                 THEN /\ UNCHANGED << fwVars, hist >>
                      /\ loop' = [loop EXCEPT ![l].pc = "close"]
                 ELSE /\ FwPrint(Token(l))
                      /\ hist' = [hist EXCEPT !.wrote = Append(@, Token(l))]
                      /\ loop' = [loop EXCEPT ![l].pc = AfterPut(l),
                                              ![l].ws = "msg"]
            /\ UNCHANGED << loopFrame, cycle, messages, resetLoop, ticks,
                            rotVars >>

\* FileWriter.WriteString, lines 107-109: fmt.Fprint(fw.writer, s) under the
\* lock; fw.writer is nil when the file was closed since line 100
L_WsPut(l) ==
    /\ At(l, "ws_put")
    /\ IF fwFile = 0
       THEN Panic("nil writer")
       ELSE /\ \E fail \in Faults :
                 IF fail
                 THEN UNCHANGED << fwVars, hist >>
                 ELSE /\ FwPrint(Token(l))
                      /\ hist' = [hist EXCEPT !.wrote = Append(@, Token(l))]
            /\ loop' = [loop EXCEPT ![l].pc = AfterPut(l), ![l].ws = "msg"]
            /\ UNCHANGED << loopFrame, cycle, messages, resetLoop, ticks,
                            rotVars >>

\* a write loop that runs the rotation check after every line it has written
\* instead of on the timer tick
L_LenChk_SizeTriggered(l) ==
    /\ At(l, "lenchk")
    /\ IF Len(messages) <= 0 THEN FwFlush ELSE UNCHANGED fwVars
    /\ loop' = [loop EXCEPT ![l].pc = IF loop[l].ok THEN "rot_seek" ELSE "close"]
    /\ UNCHANGED << loopFrame, cycle, messages, resetLoop, ticks, rotVars,
                    hist >>

\* lines 159-167: flush when the queue is empty; leave the loop when the
\* queue was closed (the closed queue is empty, so the drain loop reads nothing)
L_LenChk(l) ==
    /\ At(l, "lenchk")
    /\ IF Len(messages) <= 0 THEN FwFlush ELSE UNCHANGED fwVars
    /\ loop' = [loop EXCEPT ![l].pc = IF loop[l].ok THEN "select" ELSE "close"]
    /\ UNCHANGED << loopFrame, cycle, messages, resetLoop, ticks, rotVars,
                    hist >>

\* CLOSE: f.writer.Close()
L_Close(l) ==
    /\ At(l, "close")
    /\ FwClose
    /\ loop' = [loop EXCEPT ![l].pc = "exit"]
    /\ UNCHANGED << loopFrame, cycle, messages, resetLoop, ticks, rotVars,
                    hist >>

\* the deferred function (lines 144-147)
L_Exit(l) ==
    /\ At(l, "exit")
    /\ IF closedLoop
       THEN Panic("close of closed channel")
       ELSE /\ isRunLoop' = FALSE
            /\ closedLoop' = TRUE
            /\ loop' = [loop EXCEPT ![l].pc = "dead"]
            /\ UNCHANGED << logVars, cfg, now, cycle, delay0, messages, msgClosed, resetLoop,
                            prod, nextMsg, nloops, closer, nsets, ticks,
                            fwVars, rotVars, panic, hist >>

(***************************************************************************)
(* FileRotate.Rotate, the caller's part (filerotate.go 28-35)              *)
(***************************************************************************)
NoName == -2
NewWorker(rotate) == [pc |-> "start", file |-> NoName, n |-> 0, rotate |-> rotate]

\* r.files <- newLog: blocks while the queue is full, panics once it is closed
RotateSend(newLog) ==
    /\ Len(rfiles) < RotateLen
    /\ rfiles' = Append(rfiles, newLog)

\* if r.count > 0 { return }; go func() {...}()
RotateSpawn(rotate) ==
    IF rcount > 0
    THEN UNCHANGED << worker, nworkers >>
    ELSE /\ nworkers' = nworkers + 1
         /\ worker' = [worker EXCEPT ![nworkers + 1] = NewWorker(rotate)]

(***************************************************************************)
(* FileLogWriter.intRotate (filelog.go 224-251), run by the write loop     *)
(***************************************************************************)
\* line 225: Seek; below the threshold nothing happens; line 231: the footer
L_RotSeek(l) ==
    /\ At(l, "rot_seek")
    /\ loop' = [loop EXCEPT
                  ![l].pc = IF SeekCur(inodes, fwFile, fwOff) <= cfg.maxsize
                            THEN "select"
                            ELSE IF cfg.footer THEN "ws_chk" ELSE "rot_close",
                  ![l].ws = IF SeekCur(inodes, fwFile, fwOff) > cfg.maxsize
                               /\ cfg.footer
                            THEN "foot" ELSE "msg"]
    /\ UNCHANGED << loopFrame, cycle, messages, resetLoop, ticks, fwVars,
                    rotVars, hist >>

\* an intRotate that renames the file whatever maxrotate is
L_RotClose_Rename(l) ==
    /\ At(l, "rot_close")
    /\ FwClose
    /\ loop' = [loop EXCEPT ![l].pc = "rot_ren"]
    /\ UNCHANGED << loopFrame, cycle, messages, resetLoop, ticks, rotVars,
                    hist >>

\* line 235: f.writer.Close()
L_RotClose(l) ==
    /\ At(l, "rot_close")
    /\ FwClose
    /\ loop' = [loop EXCEPT ![l].pc = IF cfg.maxrotate <= 0 THEN "rot_rm"
                                      ELSE "rot_ren"]
    /\ UNCHANGED << loopFrame, cycle, messages, resetLoop, ticks, rotVars,
                    hist >>

\* line 238: os.Remove(f.filename)
L_RotRemove(l) ==
    /\ At(l, "rot_rm")
    /\ inodes' = Remove(inodes, ActiveName)
    /\ loop' = [loop EXCEPT ![l].pc = "select"]
    /\ UNCHANGED << loopFrame, cycle, messages, resetLoop, ticks, fwFile,
                    fwOff, fwBuf, handles, rotVars, hist >>

\* an intRotate that goes on to f.rotate.Rotate(newLog) after a failed rename
L_RotRename_HandOver(l) ==
    /\ At(l, "rot_ren")
    /\ \E fail \in Faults :
          /\ IF Exists(inodes, ActiveName) /\ ~fail
             THEN /\ inodes' = Rename(inodes, ActiveName, TmpName(nrot + 1))
                  /\ nrot' = nrot + 1
             ELSE UNCHANGED << inodes, nrot >>
          /\ loop' = [loop EXCEPT ![l].pc = "rot_send",
                                  ![l].tmp = TmpName(nrot + 1)]
    /\ UNCHANGED << loopFrame, cycle, messages, resetLoop, ticks, fwFile,
                    fwOff, fwBuf, handles, rcount, rfiles, rClosed, worker,
                    nworkers, notRotated, driver, hist >>

\* lines 243-248: os.Rename(f.filename, newLog); on an error the step ends
L_RotRename(l) ==
    /\ At(l, "rot_ren")
    /\ \E fail \in Faults :
          IF Exists(inodes, ActiveName) /\ ~fail
          THEN /\ inodes' = Rename(inodes, ActiveName, TmpName(nrot + 1))
               /\ nrot' = nrot + 1
               /\ loop' = [loop EXCEPT ![l].pc = "rot_send",
                                       ![l].tmp = TmpName(nrot + 1)]
          ELSE /\ loop' = [loop EXCEPT ![l].pc = "select"]
               /\ UNCHANGED << inodes, nrot >>
    /\ UNCHANGED << loopFrame, cycle, messages, resetLoop, ticks, fwFile,
                    fwOff, fwBuf, handles, rcount, rfiles, rClosed, worker,
                    nworkers, notRotated, driver, hist >>

\* line 250, Rotate line 29: r.files <- newLog
L_RotSend(l) ==
    /\ At(l, "rot_send")
    /\ IF rClosed
       THEN Panic("send on closed channel")
       ELSE /\ RotateSend(loop[l].tmp)
            /\ loop' = [loop EXCEPT ![l].pc = "rot_cnt"]
            /\ UNCHANGED << loopFrame, cycle, messages, resetLoop, ticks,
                            fwVars, rcount, rClosed, worker, nworkers, nrot,
                            notRotated, driver, hist >>

\* Rotate lines 30-35
L_RotCount(l) ==
    /\ At(l, "rot_cnt")
    /\ RotateSpawn(cfg.maxrotate)
    /\ loop' = [loop EXCEPT ![l].pc = "select"]
    /\ UNCHANGED << loopFrame, cycle, messages, resetLoop, ticks, fwVars,
                    rcount, rfiles, rClosed, nrot, notRotated, driver, hist >>

(***************************************************************************)
(* The shifter goroutine (filerotate.go 35-86)                             *)
(***************************************************************************)
WAt(w, pc) == Alive /\ worker[w].pc = pc

workerFrame == << writerVars, rClosed, nworkers, nrot, notRotated, driver,
                  panic, hist >>

\* line 36: r.count++
W_Start(w) ==
    /\ WAt(w, "start")
    /\ rcount' = rcount + 1
    /\ worker' = [worker EXCEPT ![w].pc = "len"]
    /\ UNCHANGED << workerFrame, rfiles, inodes >>

\* line 37: for len(r.files) > 0
W_Len(w) ==
    /\ WAt(w, "len")
    /\ worker' = [worker EXCEPT ![w].pc = IF Len(rfiles) > 0 THEN "recv"
                                          ELSE "dec"]
    /\ UNCHANGED << workerFrame, rcount, rfiles, inodes >>

\* line 38: newFile, _ := <-r.files (the empty string from the closed queue)
W_Recv(w) ==
    /\ WAt(w, "recv")
    /\ \/ /\ Len(rfiles) > 0
          /\ rfiles' = Tail(rfiles)
          /\ worker' = [worker EXCEPT ![w].pc = "scan", ![w].n = 1,
                                      ![w].file = Head(rfiles)]
       \/ /\ Len(rfiles) = 0
          /\ rClosed
          /\ UNCHANGED rfiles
          /\ worker' = [worker EXCEPT ![w].pc = "scan", ![w].n = 1,
                                      ![w].file = NoName]
    /\ UNCHANGED << workerFrame, rcount, inodes >>

\* lines 54-60: one os.Lstat of the scan for the first missing slot
W_Scan(w) ==
    /\ WAt(w, "scan")
    /\ worker' = [worker EXCEPT
                    ![w].pc = IF ~Exists(inodes, SlotName(worker[w].n))
                              THEN "shift"
                              ELSE IF worker[w].n + 1 > worker[w].rotate
                                   THEN "full" ELSE "scan",
                    ![w].n = IF Exists(inodes, SlotName(worker[w].n))
                             THEN worker[w].n + 1 ELSE worker[w].n]
    /\ UNCHANGED << workerFrame, rcount, rfiles, inodes >>

\* lines 64-68: every slot is taken: os.Remove(slot); n--
W_Full(w) ==
    /\ WAt(w, "full")
    /\ inodes' = Remove(inodes, SlotName(worker[w].n - 1))
    /\ worker' = [worker EXCEPT ![w].pc = "shift", ![w].n = worker[w].n - 1]
    /\ UNCHANGED << workerFrame, rcount, rfiles >>

\* lines 72-79: os.Rename(prev, slot) for n, n-1, .. 2
W_Shift(w) ==
    /\ WAt(w, "shift")
    /\ worker[w].n > 1
    /\ inodes' = Rename(inodes, SlotName(worker[w].n - 1), SlotName(worker[w].n))
    /\ worker' = [worker EXCEPT ![w].n = worker[w].n - 1]
    /\ UNCHANGED << workerFrame, rcount, rfiles >>

\* line 83: os.Rename(newFile, path + ".001" + ext)
W_Final(w) ==
    /\ WAt(w, "shift")
    /\ worker[w].n <= 1
    /\ inodes' = Rename(inodes, worker[w].file, SlotName(1))
    /\ worker' = [worker EXCEPT ![w].pc = "len"]
    /\ UNCHANGED << workerFrame, rcount, rfiles >>

\* line 85: r.count--
W_Dec(w) ==
    /\ WAt(w, "dec")
    /\ rcount' = rcount - 1
    /\ worker' = [worker EXCEPT ![w].pc = "dead"]
    /\ UNCHANGED << workerFrame, rfiles, inodes >>

(***************************************************************************)
(* FileRotate.Close (filerotate.go 89-104)                                 *)
(***************************************************************************)
closeFrame == << logVars, cfg, now, cycle, delay0, messages, resetLoop, prod, nextMsg, loop,
                 nloops, nsets, ticks, fwVars, rcount, worker, nworkers, nrot,
                 driver, panic >>

\* lines 90-96: up to ten polls of r.count, 100 ms apart; the loop ends when
\* the count is not positive or when the ten polls are over
R_Poll ==
    /\ Alive
    /\ closer.pc = "rot"
    /\ closer' = [closer EXCEPT !.pc = "rclose", !.late = (rcount > 0)]
    /\ UNCHANGED << closeFrame, isRunLoop, msgClosed, closedLoop, rfiles,
                    rClosed, notRotated, hist >>

\* line 98: close(r.files)
R_CloseChan ==
    /\ Alive
    /\ closer.pc = "rclose"
    /\ IF rClosed
       THEN Panic("close of closed channel")
       ELSE /\ rClosed' = TRUE
            /\ closer' = [closer EXCEPT !.pc = "drain"]
            /\ UNCHANGED << closeFrame, isRunLoop, msgClosed, closedLoop,
                            rfiles, notRotated, hist >>

\* lines 100-103: for file := range r.files, one receive at a time; Close
\* returns when the closed queue is empty
R_Drain ==
    /\ Alive
    /\ closer.pc = "drain"
    /\ IF Len(rfiles) > 0
       THEN /\ rfiles' = Tail(rfiles)
            /\ notRotated' = notRotated \cup {Head(rfiles)}
            /\ UNCHANGED closer
       ELSE /\ closer' = [closer EXCEPT !.pc = "idle", !.n = closer.n + 1]
            /\ UNCHANGED << rfiles, notRotated >>
    /\ UNCHANGED << closeFrame, isRunLoop, msgClosed, closedLoop, rClosed,
                    hist >>

(***************************************************************************)
(* FileLogWriter.Close (filelog.go 73-85)                                  *)
(***************************************************************************)
\* line 74: close(f.messages)
C_CloseChan ==
    /\ Alive
    /\ closer.pc = "idle"
    /\ closer.n < cfg.closes
    /\ IF msgClosed
       THEN Panic("close of closed channel")
       ELSE /\ msgClosed' = TRUE
            /\ closer' = [closer EXCEPT !.pc = "chk"]
            /\ hist' = [hist EXCEPT !.atClose = hist.enq, !.next = nextMsg,
                                    !.quiet = \A p \in Producers :
                                                 prod[p].pc = "idle"]
            /\ UNCHANGED << closeFrame, isRunLoop, closedLoop, rfiles, rClosed,
                            notRotated >>

\* lines 77-78: if f.isRunLoop { f.isRunLoop = false
C_Check ==
    /\ Alive
    /\ closer.pc = "chk"
    /\ closer' = [closer EXCEPT !.pc = IF isRunLoop THEN "wait" ELSE "rot"]
    /\ isRunLoop' = FALSE
    /\ UNCHANGED << closeFrame, msgClosed, closedLoop, rfiles, rClosed,
                    notRotated, hist >>

\* line 79: <-f.closedLoop
C_Wait ==
    /\ Alive
    /\ closer.pc = "wait"
    /\ closedLoop
    /\ closer' = [closer EXCEPT !.pc = "rot"]
    /\ UNCHANGED << closeFrame, isRunLoop, msgClosed, closedLoop, rfiles,
                    rClosed, notRotated, hist >>

(***************************************************************************)
(* A direct caller of FileRotate: it leaves a temporary file holding the   *)
(* rotated content k, as intRotate's rename does, and calls Rotate.        *)
(***************************************************************************)
driverFrame == << writerVars, rcount, rClosed, notRotated, panic, hist >>

D_Call ==
    /\ Alive
    /\ driver.pc = "idle"
    /\ nrot < MaxRots
    /\ nrot' = nrot + 1
    /\ inodes' = Append(inodes, [name |-> TmpName(nrot + 1),
                                 data |-> << nrot + 1 >>])
    /\ driver' = [pc |-> "send", file |-> TmpName(nrot + 1)]
    /\ UNCHANGED << driverFrame, rfiles, worker, nworkers >>

D_Send ==
    /\ Alive
    /\ driver.pc = "send"
    /\ IF rClosed
       THEN Panic("send on closed channel")
       ELSE /\ RotateSend(driver.file)
            /\ driver' = [driver EXCEPT !.pc = "cnt"]
            /\ UNCHANGED << driverFrame, worker, nworkers, nrot, inodes >>

D_Count ==
    /\ Alive
    /\ driver.pc = "cnt"
    /\ RotateSpawn(RotSlots)
    /\ driver' = [driver EXCEPT !.pc = "idle"]
    /\ UNCHANGED << driverFrame, rfiles, nrot, inodes >>

(***************************************************************************)
(* Options.  A value passed as interface{} is a record [t, n, s]: its      *)
(* dynamic type, the number of an int or int64, the characters of a        *)
(* string.  A string is the sequence of its characters.                    *)
(***************************************************************************)
IntV(n) == [t |-> "int", n |-> n, s |-> << >>]
Int64V(n) == [t |-> "int64", n |-> n, s |-> << >>]
StrV(s) == [t |-> "string", n |-> 0, s |-> s]
BoolV == [t |-> "bool", n |-> 0, s |-> << >>]

\* the largest int of a build whose int has 32 bits
MaxInt == 2147483647
MinInt == 0 - MaxInt - 1

\* x + y in the int of the build: the sum wraps around
WrapAdd(x, y) ==
    IF x > 0 /\ y > 0 /\ x > MaxInt - y
    THEN ((x - MaxInt - 1) + y) - MaxInt - 1
    ELSE IF x < 0 /\ y < 0 /\ x < MinInt - y
    THEN ((x + MaxInt + 1) + y) + MaxInt + 1
    ELSE x + y

\* a * b in the int of the build, for b >= 0: twice a * (b / 2), plus a
\* when b is odd
RECURSIVE WrapMul(_, _)
WrapMul(a, b) ==
    IF b = 0 THEN 0
    ELSE CHOOSE r \in {WrapAdd(WrapAdd(h, h), IF b % 2 = 1 THEN a ELSE 0) :
                          h \in {WrapMul(a, b \div 2)}} : TRUE

Digits == << "0", "1", "2", "3", "4", "5", "6", "7", "8", "9" >>

IsDigit(c) == \E i \in 1 .. 10 : Digits[i] = c

DigitOf(c) == (CHOOSE i \in 1 .. 10 : Digits[i] = c) - 1

\* the number written by the digits str after acc; a number too large for
\* int is the largest int (strconv: a range error)
RECURSIVE AtoiDigits(_, _)
AtoiDigits(str, acc) ==
    IF str = << >> THEN acc
    ELSE IF acc > (MaxInt - DigitOf(Head(str))) \div 10 THEN MaxInt
    ELSE AtoiDigits(Tail(str), acc * 10 + DigitOf(Head(str)))

Signed(str) == str # << >> /\ Head(str) \in {"+", "-"}

Unsigned(str) == IF Signed(str) THEN Tail(str) ELSE str

\* parsed, _ := strconv.Atoi(str): 0 when str is not a number
Atoi(str) ==
    IF Unsigned(str) = << >> \/ \E i \in 1 .. Len(Unsigned(str)) :
                                    ~IsDigit(Unsigned(str)[i])
    THEN 0
    ELSE IF Head(str) = "-" THEN 0 - AtoiDigits(Unsigned(str), 0)
    ELSE AtoiDigits(Unsigned(str), 0)

\* strings.Trim(value, " \r\n")
Cutset == {" ", "\r", "\n"}

RECURSIVE TrimLeft(_)
TrimLeft(str) ==
    IF str # << >> /\ Head(str) \in Cutset THEN TrimLeft(Tail(str)) ELSE str

RECURSIVE TrimRight(_)
TrimRight(str) ==
    IF str # << >> /\ str[Len(str)] \in Cutset
    THEN TrimRight(SubSeq(str, 1, Len(str) - 1))
    ELSE str

Trim(str) == TrimRight(TrimLeft(str))

\* the suffix of StrToNumSuffix, lines 123-135: how many times num *= mult
SuffixOf(str) ==
    IF Len(str) <= 1 THEN 0
    ELSE CASE str[Len(str)] \in {"G", "g"} -> 3
           [] str[Len(str)] \in {"M", "m"} -> 2
           [] str[Len(str)] \in {"K", "k"} -> 1
           [] OTHER -> 0

RECURSIVE NumOf(_, _)
NumOf(mult, k) == IF k = 0 THEN 1 ELSE WrapMul(NumOf(mult, k - 1), mult)

\* StrToNumSuffix (config.go)
StrToNumSuffix(str, mult) ==
    WrapMul(Atoi(IF SuffixOf(str) > 0 THEN SubSeq(str, 1, Len(str) - 1) ELSE str),
            NumOf(mult, SuffixOf(str)))

\* the units of time.ParseDuration, in milliseconds and nanoseconds
UnitOf(u) ==
    CASE u = << "n", "s" >> -> [ms |-> 0, ns |-> 1]
      [] u = << "u", "s" >> -> [ms |-> 0, ns |-> 1000]
      [] u = << "m", "s" >> -> [ms |-> 1, ns |-> 0]
      [] u = << "s" >> -> [ms |-> 1000, ns |-> 0]
      [] u = << "m" >> -> [ms |-> 60000, ns |-> 0]
      [] u = << "h" >> -> [ms |-> 3600000, ns |-> 0]
      [] OTHER -> [ms |-> 0 - 1, ns |-> 0]

\* the length of the run of digits (dig) or of other characters from i on
RECURSIVE Span(_, _, _)
Span(str, i, dig) ==
    IF i <= Len(str) /\ (IsDigit(str[i]) = dig)
    THEN 1 + Span(str, i + 1, dig)
    ELSE 0

NoDuration == [ok |-> FALSE, ms |-> 0, ns |-> 0]

\* the groups "number unit" of str from i on, added to acc
RECURSIVE Groups(_, _, _)
Groups(str, i, acc) ==
    IF i > Len(str) THEN acc
    ELSE LET nd == Span(str, i, TRUE)
             nu == Span(str, i + nd, FALSE)
             n == AtoiDigits(SubSeq(str, i, i + nd - 1), 0)
             u == UnitOf(SubSeq(str, i + nd, i + nd + nu - 1))
         IN  IF nd = 0 \/ nu = 0 \/ u.ms < 0 THEN NoDuration
             ELSE Groups(str, i + nd + nu,
                         [ok |-> TRUE,
                          ms |-> acc.ms + n * u.ms
                                 + (acc.ns + n * u.ns) \div 1000000,
                          ns |-> (acc.ns + n * u.ns) % 1000000])

\* dur, _ := time.ParseDuration(value), for a value without a fraction: the
\* duration as whole milliseconds and the nanoseconds left over; 0 when the
\* value is not a duration ("0" is one, a number without unit is not)
ParseDuration(str) ==
    IF Unsigned(str) = << "0" >> THEN [ok |-> TRUE, ms |-> 0, ns |-> 0]
    ELSE IF Unsigned(str) = << >> THEN NoDuration
    ELSE LET g == Groups(Unsigned(str), 1, [ok |-> TRUE, ms |-> 0, ns |-> 0])
         IN  IF g.ok /\ Head(str) = "-"
             THEN [ok |-> TRUE, ms |-> 0 - g.ms, ns |-> 0 - g.ns]
             ELSE g

\* FORMAT_DEFAULT, and the default file name that init() derives
FORMAT_DEFAULT == << "%", "M" >>
DefaultFileName == << "~", "/", "x", ".", "l", "o", "g" >>
DefaultFileFlush == 4096
DefaultRotSize == 10485760

\* NewFileLogWriter (filelog.go 100-125): the options of the new writer
NewFileLogWriter(fname, maxrotate) ==
    [filename |-> IF fname = << >> THEN DefaultFileName ELSE fname,
     format |-> FORMAT_DEFAULT, header |-> << >>, footer |-> << >>,
     flush |-> DefaultFileFlush, maxsize |-> DefaultRotSize,
     maxrotate |-> maxrotate, cycle |-> CycleReset, delay0 |-> 0]

Ok(f) == [f |-> f, err |-> "nil"]
Bad(f) == [f |-> f, err |-> "ErrBadValue"]

\* FileLogWriter.SetOption (filelog.go 259-358) on a writer whose write loop
\* has not started: the options afterwards and the error returned
SetOption(f, name, v) ==
    CASE name = "filename" ->
           IF v.t # "string" \/ Len(f.filename) <= 0 THEN Bad(f)
           ELSE Ok([f EXCEPT !.filename = v.s])
      [] name = "flush" ->
           IF v.t = "int" THEN Ok([f EXCEPT !.flush = v.n])
           ELSE IF v.t = "string"
           THEN Ok([f EXCEPT !.flush = StrToNumSuffix(Trim(v.s), 1024)])
           ELSE Bad(f)
      [] name = "maxrotate" ->
           IF v.t = "int" THEN Ok([f EXCEPT !.maxrotate = v.n])
           ELSE IF v.t = "string"
           THEN Ok([f EXCEPT !.maxrotate = StrToNumSuffix(Trim(v.s), 1)])
           ELSE Bad(f)
      [] name = "cycle" ->
           IF v.t \in {"int", "int64"}
           THEN Ok([f EXCEPT !.cycle = ClampCycle(v.n)])
           ELSE IF v.t = "string"
           THEN Ok([f EXCEPT !.cycle = ClampCycle(ParseDuration(v.s).ms)])
           ELSE Bad(f)
      [] name = "delay0" ->
           IF v.t \in {"int", "int64"} THEN Ok([f EXCEPT !.delay0 = v.n])
           ELSE IF v.t = "string"
           THEN Ok([f EXCEPT !.delay0 = ParseDuration(v.s).ms])
           ELSE Bad(f)
      [] name = "maxsize" ->
           IF v.t \in {"int", "int64"} THEN Ok([f EXCEPT !.maxsize = v.n])
           ELSE IF v.t = "string"
           THEN Ok([f EXCEPT !.maxsize = StrToNumSuffix(Trim(v.s), 1024)])
           ELSE Bad(f)
      [] name = "format" ->
           IF v.t = "string" THEN Ok([f EXCEPT !.format = v.s])
           ELSE Bad([f EXCEPT !.format = << >>])
      [] name = "head" ->
           IF v.t = "string" THEN Ok([f EXCEPT !.header = v.s])
           ELSE Bad([f EXCEPT !.header = << >>])
      [] name = "foot" ->
           IF v.t = "string" THEN Ok([f EXCEPT !.footer = v.s])
           ELSE Bad([f EXCEPT !.footer = << >>])
      [] OTHER -> [f |-> f, err |-> "ErrBadOption"]

\* PropToFileLogWriter, lines 145-151: the local variables and their defaults
PropLocals ==
    [filename |-> << >>, rotate |-> 0, cycle |-> << "2", "4", "h" >>,
     delay0 |-> << "0", "h" >>, format |-> FORMAT_DEFAULT, flush |-> 0,
     maxsize |-> << "1", "0", "M" >>]

\* lines 154-173: the loop over the properties
RECURSIVE ParseProps(_, _)
ParseProps(props, loc) ==
    IF props = << >> THEN loc
    ELSE LET name == Head(props).Name
             value == Trim(Head(props).Value)
         IN  ParseProps(Tail(props),
                 CASE name = "filename" -> [loc EXCEPT !.filename = value]
                   [] name = "rotate" ->
                        [loc EXCEPT !.rotate = StrToNumSuffix(value, 1)]
                   [] name = "cycle" -> [loc EXCEPT !.maxsize = value]
                   [] name = "delay0" -> [loc EXCEPT !.delay0 = value]
                   [] name = "format" -> [loc EXCEPT !.format = value]
                   [] name = "flush" ->
                        [loc EXCEPT !.flush = StrToNumSuffix(value, 1024)]
                   [] name = "maxsize" -> [loc EXCEPT !.maxsize = value]
                   [] OTHER -> loc)

\* lines 186-192: the writer constructed from the local variables
WriterOf(loc) ==
    LET f0 == NewFileLogWriter(loc.filename, loc.rotate)
        f1 == SetOption(f0, "cycle", StrV(loc.cycle)).f
        f2 == SetOption(f1, "delay0", StrV(loc.delay0)).f
        f3 == SetOption(f2, "format", StrV(loc.format)).f
        f4 == SetOption(f3, "flush", IntV(loc.flush)).f
    IN  SetOption(f4, "maxsize", StrV(loc.maxsize)).f

\* the call f.SetOption(name, v)
O_SetOption(name, v) ==
    /\ ocall.n < MaxOptCalls
    /\ flw' = SetOption(flw, name, v).f
    /\ ocall' = [op |-> "SetOption", name |-> name, v |-> v, props |-> << >>,
                 err |-> SetOption(flw, name, v).err, n |-> ocall.n + 1]
    /\ UNCHANGED << loggerVars, setter, useVars >>

\* Logger.PropToFileLogWriter(props, true) (config.go 144-194): the writer
\* it returns replaces the one under configuration; none is returned when
\* the filename is missing
O_PropToFileLogWriter(props) ==
    /\ ocall.n < MaxOptCalls
    /\ flw' = IF Len(ParseProps(props, PropLocals).filename) = 0 THEN flw
              ELSE WriterOf(ParseProps(props, PropLocals))
    /\ ocall' = [op |-> "PropToFileLogWriter", name |-> "", v |-> IntV(0),
                 props |-> props,
                 err |-> IF Len(ParseProps(props, PropLocals).filename) = 0
                         THEN "false" ELSE "nil",
                 n |-> ocall.n + 1]
    /\ UNCHANGED << loggerVars, setter, useVars >>

(***************************************************************************)
(* Initial states                                                          *)
(***************************************************************************)
\* NewFileLogWriter, NewFileWriter, NewFileRotate; the options are those a
\* caller sets before the first write
\* the content of the backup .00n left by an earlier run
OldTok(n) == 0 - 10 - n

OldBackups(k) == [n \in 1 .. k |-> [name |-> SlotName(n), data |-> << OldTok(n) >>]]

\* the active file left by an earlier run, holding the lines d (none: no file)
PriorFile(d) ==
    IF d = << >> THEN << >> ELSE << [name |-> ActiveName, data |-> d] >>

\* rotation by deletion, with header and footer, on an unbuffered queue;
\* rotation into RotSlots backups, all present already, on a buffered queue
CfgSet ==
    { [maxrotate |-> 0, maxsize |-> 0, header |-> TRUE, footer |-> TRUE,
       mcap |-> 0, old |-> 0, msgs |-> MaxMsgs, ticks |-> MaxTicks,
       prior |-> << >>, closes |-> MaxCloses, faults |-> FALSE, cal |-> << >>],
      [maxrotate |-> RotSlots, maxsize |-> 0, header |-> FALSE, footer |-> FALSE,
       mcap |-> MaxBuf, old |-> RotSlots, msgs |-> MaxMsgs, ticks |-> MaxTicks,
       prior |-> << >>, closes |-> MaxCloses, faults |-> FALSE, cal |-> << >>] }

\* the configuration of the direct caller of FileRotate
RotCfg ==
    [maxrotate |-> RotSlots, maxsize |-> 0, header |-> FALSE, footer |-> FALSE,
     mcap |-> MaxBuf, old |-> 0, msgs |-> MaxMsgs, ticks |-> MaxTicks,
       prior |-> << >>, closes |-> MaxCloses, faults |-> FALSE, cal |-> << >>]

\* c: the options; t: the time of the start; cy, d0: f.cycle and f.delay0
InitAt(c, t, cy, d0) ==
    /\ cfg = c
    /\ now = t
    /\ logger = << >>
    /\ writers = << >>
    /\ exited = FALSE
    /\ calls = [adds |-> 0, logs |-> 0, closes |-> 0, loads |-> 0,
                conf |-> [ok |-> TRUE, filters |-> << >>]]
    /\ flw = NewFileLogWriter(<< >>, 0)
    /\ ocall = [op |-> "none", name |-> "", v |-> IntV(0), props |-> << >>,
                err |-> "nil", n |-> 0]
    /\ setter = "idle"
    /\ cycle = cy
    /\ delay0 = d0
    /\ isRunLoop = FALSE
    /\ messages = << >>
    /\ msgClosed = FALSE
    /\ closedLoop = FALSE
    /\ resetLoop = 0
    /\ prod = [p \in Producers |-> [pc |-> "idle", msg |-> 0]]
    /\ nextMsg = 1
    /\ loop = [l \in LoopIds |-> [NewLoop EXCEPT !.pc = "none"]]
    /\ nloops = 0
    /\ closer = [pc |-> "idle", n |-> 0, late |-> FALSE]
    /\ nsets = 0
    /\ ticks = 0
    /\ fwFile = 0
    /\ fwOff = 0
    /\ fwBuf = << >>
    /\ handles = 0
    /\ inodes = OldBackups(c.old) \o PriorFile(c.prior)
    /\ rcount = 0
    /\ rfiles = << >>
    /\ rClosed = FALSE
    /\ worker = [w \in WorkerIds |-> [NewWorker(0) EXCEPT !.pc = "none"]]
    /\ nworkers = 0
    /\ nrot = 0
    /\ notRotated = {}
    /\ panic = "none"
    /\ hist = [enq |-> << >>, wrote |-> << >>, atClose |-> << >>, next |-> 0,
               quiet |-> FALSE, resets |-> 0, atReset |-> << >>,
               skipped |-> 0]

\* the defaults: DefaultRotCycle, DefaultRotDelay0 (filelog.go 25, 28)
InitWith(c) == InitAt(c, 0, CycleReset, 0)

Init ==
    /\ \E c \in CfgSet : InitWith(c)
    /\ driver = [pc |-> "off", file |-> NoName]

Loop(l) ==
    \/ L_Init(l) \/ L_Recv(l) \/ (\E p \in Producers : L_RecvDirect(l, p))
    \/ L_Tick(l) \/ L_HdrSeek(l) \/ L_WsChk(l) \/ L_WsOpen(l)
    \/ L_WsPut(l) \/ L_LenChk(l) \/ L_Close(l) \/ L_Exit(l)
    \/ L_RotSeek(l) \/ L_RotClose(l) \/ L_RotRemove(l) \/ L_RotRename(l)
    \/ L_RotSend(l) \/ L_RotCount(l)

Worker(w) ==
    \/ W_Start(w) \/ W_Len(w) \/ W_Recv(w) \/ W_Scan(w) \/ W_Full(w)
    \/ W_Shift(w) \/ W_Final(w) \/ W_Dec(w)

\* the caller of FileRotate.Close in SpecRot: the goroutine that called Rotate
D_Close ==
    /\ Alive
    /\ driver.pc = "idle"
    /\ closer.pc = "idle"
    /\ closer.n < cfg.closes
    /\ driver' = [driver EXCEPT !.pc = "done"]
    /\ closer' = [closer EXCEPT !.pc = "rot"]
    /\ UNCHANGED << logVars, cfg, now, cycle, delay0, isRunLoop, messages, msgClosed,
                    closedLoop, resetLoop, prod, nextMsg, loop, nloops, nsets,
                    ticks, fwVars, rcount, rfiles, rClosed, worker, nworkers,
                    nrot, notRotated, panic, hist >>

\* producers, write loops, the timer, Close, the shifter
Next ==
    \/ \E p \in Producers : LW_Call(p) \/ LW_Start(p) \/ LW_Send(p)
    \/ \E l \in LoopIds : Loop(l)
    \/ \E w \in WorkerIds : Worker(w)
    \/ C_CloseChan \/ C_Check \/ C_Wait
    \/ R_Poll \/ R_CloseChan \/ R_Drain

Spec == Init /\ [][Next]_vars

\* FileRotate alone: successive Rotate calls of one goroutine, the shifter
\* goroutines they start, and Close
InitRot ==
    /\ InitWith(RotCfg)
    /\ driver = [pc |-> "idle", file |-> NoName]

NextRot ==
    \/ D_Call \/ D_Send \/ D_Count \/ D_Close
    \/ \E w \in WorkerIds : Worker(w)
    \/ R_Poll \/ R_CloseChan \/ R_Drain

SpecRot == InitRot /\ [][NextRot]_vars

\* Backpressure: producers that keep a queue of capacity MaxBuf full, the
\* write loops and the rotation timer; Close is not called.  The loops and
\* the producers are scheduled fairly.
BackCfg ==
    [maxrotate |-> 0, maxsize |-> 0, header |-> FALSE, footer |-> FALSE,
     mcap |-> MaxBuf, old |-> 0, msgs |-> BackMsgs, ticks |-> MaxTicks,
     prior |-> << >>, closes |-> MaxCloses, faults |-> FALSE, cal |-> << >>]

InitBack ==
    /\ InitWith(BackCfg)
    /\ driver = [pc |-> "off", file |-> NoName]

LoopBack(l) ==
    \/ L_Init(l) \/ L_Recv(l) \/ L_Tick(l) \/ L_WsChk(l) \/ L_WsOpen(l)
    \/ L_WsPut(l) \/ L_LenChk(l) \/ L_RotSeek(l) \/ L_RotClose(l)
    \/ L_RotRemove(l)

NextBack ==
    \/ \E p \in Producers : LW_Call(p) \/ LW_Start(p) \/ LW_Send(p)
    \/ \E l \in LoopIds : LoopBack(l)

SpecBack ==
    /\ InitBack
    /\ [][NextBack]_vars
    /\ WF_vars(\E l \in LoopIds : LoopBack(l))
    /\ WF_vars(\E p \in Producers : LW_Call(p) \/ LW_Start(p) \/ LW_Send(p))

\* Rotation by size: a threshold of SizeMax lines, SizeTicks timer ticks, and
\* enough lines to pass the threshold; rotation by deletion and by renaming
SizeCfgSet ==
    { [maxrotate |-> r, maxsize |-> SizeMax, header |-> FALSE, footer |-> FALSE,
       mcap |-> MaxBuf, old |-> 0, msgs |-> SizeMax + 2, ticks |-> SizeTicks,
       prior |-> << >>, closes |-> MaxCloses, faults |-> FALSE, cal |-> << >>] : r \in {0, RotSlots} }

InitSize ==
    /\ \E c \in SizeCfgSet : InitWith(c)
    /\ driver = [pc |-> "off", file |-> NoName]

LoopSize(l) ==
    \/ L_Init(l) \/ L_Recv(l) \/ L_Tick(l) \/ L_WsChk(l) \/ L_WsOpen(l)
    \/ L_WsPut(l) \/ L_LenChk(l) \/ L_RotSeek(l) \/ L_RotClose(l)
    \/ L_RotRemove(l) \/ L_RotRename(l) \/ L_RotSend(l) \/ L_RotCount(l)

WorkerSize(w) ==
    \/ W_Start(w) \/ W_Len(w) \/ W_Recv(w) \/ W_Scan(w) \/ W_Shift(w)
    \/ W_Final(w) \/ W_Dec(w)

NextSize ==
    \/ \E p \in Producers : LW_Call(p) \/ LW_Start(p) \/ LW_Send(p)
    \/ \E l \in LoopIds : LoopSize(l)
    \/ \E w \in WorkerIds : WorkerSize(w)

SpecSize == InitSize /\ [][NextSize]_vars

\* I/O errors: os.OpenFile, the write and os.Rename may fail at any call;
\* rotation into backups at every tick, Close included
FaultCfg ==
    [maxrotate |-> RotSlots, maxsize |-> 0, header |-> FALSE, footer |-> FALSE,
     mcap |-> MaxBuf, old |-> 0, msgs |-> MaxMsgs, ticks |-> MaxTicks,
     prior |-> << >>, closes |-> MaxCloses, faults |-> TRUE, cal |-> << >>]

InitFault ==
    /\ InitWith(FaultCfg)
    /\ driver = [pc |-> "off", file |-> NoName]

LoopFault(l) ==
    \/ L_Init(l) \/ L_Recv(l) \/ L_Tick(l) \/ L_WsChk(l) \/ L_WsOpen(l)
    \/ L_WsPut(l) \/ L_LenChk(l) \/ L_Close(l) \/ L_Exit(l)
    \/ L_RotSeek(l) \/ L_RotClose(l) \/ L_RotRename(l)
    \/ L_RotSend(l) \/ L_RotCount(l)

WorkerFault(w) ==
    \/ W_Start(w) \/ W_Len(w) \/ W_Recv(w) \/ W_Scan(w) \/ W_Final(w)
    \/ W_Dec(w)

NextFault ==
    \/ \E p \in Producers : LW_Call(p) \/ LW_Start(p) \/ LW_Send(p)
    \/ \E l \in LoopIds : LoopFault(l)
    \/ \E w \in WorkerIds : WorkerFault(w)
    \/ C_CloseChan \/ C_Check \/ C_Wait
    \/ R_Poll \/ R_CloseChan \/ R_Drain

SpecFault == InitFault /\ [][NextFault]_vars

\* Reconfiguration: SetOption("cycle") and SetOption("delay0") while lines
\* are written, the clock advancing; the file never reaches maxsize
ResetCfg ==
    [maxrotate |-> 0, maxsize |-> MaxMsgs, header |-> FALSE, footer |-> FALSE,
     mcap |-> MaxBuf, old |-> 0, msgs |-> MaxMsgs, ticks |-> MaxTicks,
     prior |-> << >>, closes |-> MaxCloses, faults |-> FALSE, cal |-> << >>]

InitReset ==
    /\ InitWith(ResetCfg)
    /\ driver = [pc |-> "off", file |-> NoName]

LoopReset(l) ==
    \/ L_Init(l) \/ L_Recv(l) \/ L_Tick(l) \/ L_Reset(l) \/ L_WsChk(l)
    \/ L_WsOpen(l) \/ L_WsPut(l) \/ L_LenChk(l) \/ L_RotSeek(l)

NextReset ==
    \/ \E p \in Producers : LW_Call(p) \/ LW_Start(p) \/ LW_Send(p)
    \/ \E l \in LoopIds : LoopReset(l)
    \/ \E v \in CycleInputs : SetCycle(v)
    \/ \E v \in DelayInputs : SetDelay0(v)
    \/ Clock

SpecReset == InitReset /\ [][NextReset]_vars

\* nextRotateTime alone: the first statement of a write loop started at any
\* half hour of the first days, in a zone without a change of offset, in one
\* whose first day has 25 hours, and in one whose second day has 23 hours
Calendars == { << >>, << 25 * Hour >>, << 24 * Hour, 23 * Hour >> }

NowInputs == {k * (Hour \div 2) : k \in 0 .. MaxNow}

DelayInit == {-1, 0, Hour}

CycleInit == {3, CycleReset}

TimeCfg(c) ==
    [maxrotate |-> 0, maxsize |-> 0, header |-> FALSE, footer |-> FALSE,
     mcap |-> MaxBuf, old |-> 0, msgs |-> 1, ticks |-> 0,
     prior |-> << >>, closes |-> MaxCloses, faults |-> FALSE, cal |-> c]

InitTime ==
    /\ \E c \in Calendars, t \in NowInputs, cy \in CycleInit, d0 \in DelayInit :
          InitAt(TimeCfg(c), t, cy, d0)
    /\ driver = [pc |-> "off", file |-> NoName]

NextTime ==
    \/ \E p \in Producers : LW_Call(p) \/ LW_Start(p)
    \/ \E l \in LoopIds : L_Init(l)

SpecTime == InitTime /\ [][NextTime]_vars

\* Rotation after rotation: one producer, one write loop that rotates after
\* every line, enough lines and ticks to fill the Shifter queue; Close is
\* not called.  The write loop, the workers and the producer are scheduled
\* fairly.
HandCfg ==
    [maxrotate |-> RotSlots, maxsize |-> 0, header |-> FALSE, footer |-> FALSE,
     mcap |-> MaxBuf, old |-> 0, msgs |-> RotateLen + 2, ticks |-> RotateLen + 2,
     prior |-> << >>, closes |-> MaxCloses, faults |-> FALSE, cal |-> << >>]

InitHand ==
    /\ InitWith(HandCfg)
    /\ driver = [pc |-> "off", file |-> NoName]

LoopHand(l) ==
    \/ L_Init(l) \/ L_Recv(l) \/ L_Tick(l) \/ L_WsChk(l) \/ L_WsOpen(l)
    \/ L_WsPut(l) \/ L_LenChk(l) \/ L_RotSeek(l) \/ L_RotClose(l)
    \/ L_RotRename(l) \/ L_RotSend(l) \/ L_RotCount(l)

NextHand ==
    \/ LW_Call(1) \/ LW_Start(1) \/ LW_Send(1)
    \/ \E l \in LoopIds : LoopHand(l)
    \/ \E w \in WorkerIds : Worker(w)

SpecHand ==
    /\ InitHand
    /\ [][NextHand]_vars
    /\ WF_vars(\E l \in LoopIds : LoopHand(l))
    /\ WF_vars(\E w \in WorkerIds : Worker(w))
    /\ WF_vars(LW_Call(1) \/ LW_Start(1) \/ LW_Send(1))

(***************************************************************************)
(* The Logger: a mapping from tags to filters, each a threshold and a      *)
(* LogWriter; AddFilter, Log, Close, and the loading of a configuration.   *)
(***************************************************************************)
\* filter descriptors in one configuration
MaxFilters == 2
\* calls of AddFilter, Log, Logger.Close, LoadConfigBuf in one run
MaxAdds == 1
MaxLogs == 1
MaxLoggerCloses == 2
MaxLoads == 1

\* the levels, in their order
Level ==
    [FINEST |-> 0, FINE |-> 1, DEBUG |-> 2, TRACE |-> 3, INFO |-> 4,
     WARNING |-> 5, ERROR |-> 6, CRITICAL |-> 7]
Levels == Level.FINEST .. Level.CRITICAL

\* a nil LogWriter
NoWriter == 0

\* a LogWriter just constructed; enabled records for which kind of
\* descriptor it was constructed
NewWriter(kind, enabled) ==
    [kind |-> kind, enabled |-> enabled, closed |-> 0, recs |-> << >>]

\* AddFilter(name, lvl, writer): inserts or replaces the entry of name
AddFilter(lg, name, lvl, w) ==
    [t \in DOMAIN lg \cup {name} |->
        IF t = name THEN [Level |-> lvl, LogWriter |-> w] ELSE lg[t]]

\* the filters of lg whose LogWriter is w
TagsOf(lg, w) == {t \in DOMAIN lg : lg[t].LogWriter = w}

\* Logger.Close: closes the writer of every filter and deletes the entry
ClosedWriters(lg, ws) ==
    [w \in 1 .. Len(ws) |->
        [ws[w] EXCEPT !.closed = @ + Cardinality(TagsOf(lg, w))]]

\* a Logger.Close that closes the writers and keeps the entries
LoggerClose_Keep ==
    /\ ~exited
    /\ calls.closes < MaxLoggerCloses
    /\ writers' = ClosedWriters(logger, writers)
    /\ calls' = [calls EXCEPT !.closes = @ + 1]
    /\ UNCHANGED << logger, exited >>
    /\ UNCHANGED fileVars

LoggerClose ==
    /\ ~exited
    /\ calls.closes < MaxLoggerCloses
    /\ writers' = ClosedWriters(logger, writers)
    /\ logger' = << >>
    /\ calls' = [calls EXCEPT !.closes = @ + 1]
    /\ UNCHANGED exited
    /\ UNCHANGED fileVars

\* Logger.Log(lvl, ...): the record goes to every filter whose threshold is
\* at or below lvl; rec is the record, [Level, n]
Delivered(lg, ws, rec) ==
    [w \in 1 .. Len(ws) |->
        IF \E t \in TagsOf(lg, w) : lg[t].Level <= rec.Level
        THEN [ws[w] EXCEPT !.recs = Append(@, rec)]
        ELSE ws[w]]

\* a Log that compares the names of the levels as strings would
Alphabetic(lvl) ==
    CASE lvl = Level.CRITICAL -> 0 [] lvl = Level.DEBUG -> 1 [] lvl = Level.ERROR -> 2
      [] lvl = Level.FINE -> 3 [] lvl = Level.FINEST -> 4 [] lvl = Level.INFO -> 5
      [] lvl = Level.TRACE -> 6 [] OTHER -> 7

LoggerLog_Alphabetic(lvl) ==
    /\ ~exited
    /\ calls.logs < MaxLogs
    /\ writers' =
          [w \in 1 .. Len(writers) |->
              IF \E t \in TagsOf(logger, w) :
                    Alphabetic(logger[t].Level) <= Alphabetic(lvl)
              THEN [writers[w] EXCEPT
                      !.recs = Append(@, [Level |-> lvl, n |-> calls.logs + 1])]
              ELSE writers[w]]
    /\ calls' = [calls EXCEPT !.logs = @ + 1]
    /\ UNCHANGED << logger, exited >>
    /\ UNCHANGED fileVars

LoggerLog(lvl) ==
    /\ ~exited
    /\ calls.logs < MaxLogs
    /\ writers' = Delivered(logger, writers,
                            [Level |-> lvl, n |-> calls.logs + 1])
    /\ calls' = [calls EXCEPT !.logs = @ + 1]
    /\ UNCHANGED << logger, exited >>
    /\ UNCHANGED fileVars

\* a caller adds a filter with a console writer it has just constructed
LoggerAddFilter(name, lvl) ==
    /\ ~exited
    /\ calls.adds < MaxAdds
    /\ writers' = Append(writers, NewWriter("console", TRUE))
    /\ logger' = AddFilter(logger, name, lvl, Len(writers) + 1)
    /\ calls' = [calls EXCEPT !.adds = @ + 1]
    /\ UNCHANGED exited
    /\ UNCHANGED fileVars

(***************************************************************************)
(* Loading a configuration: LoadConfigBuf, CheckFilterConfig,              *)
(* MakeLogWriter and the constructors of the three kinds of writer.        *)
(* A descriptor is [Enabled, Tag, Level, Type, Properties], strings as in  *)
(* FilterConfig, the properties by their names.                            *)
(***************************************************************************)
\* CheckFilterConfig: bad, enabled, lvl
CheckFilterConfig(fc) ==
    [bad |-> \/ fc.Enabled = "" \/ fc.Tag = "" \/ fc.Type = ""
             \/ fc.Level = ""
             \/ fc.Level \notin {"FINEST", "FINE", "DEBUG", "TRACE", "INFO",
                                 "WARNING", "ERROR", "CRITICAL"},
     enabled |-> fc.Enabled # "" /\ fc.Enabled # "false",
     lvl |-> CASE fc.Level = "FINEST" -> Level.FINEST
               [] fc.Level = "FINE" -> Level.FINE
               [] fc.Level = "DEBUG" -> Level.DEBUG
               [] fc.Level = "TRACE" -> Level.TRACE
               [] fc.Level = "INFO" -> Level.INFO
               [] fc.Level = "WARNING" -> Level.WARNING
               [] fc.Level = "ERROR" -> Level.ERROR
               [] fc.Level = "CRITICAL" -> Level.CRITICAL
               [] OTHER -> Level.INFO]

HasProp(props, name) == \E i \in 1 .. Len(props) : props[i] = name

\* what a constructor returns: the writers there are now, the LogWriter
\* (NoWriter for nil) and good
Made(ws, lw, good) == [ws |-> ws, lw |-> lw, good |-> good]

\* the writer is constructed first, its options are set (an error is a
\* warning), then enabled is tested
propToConsoleLogWriter(ws, props, enabled) ==
    LET made == Append(ws, NewWriter("console", enabled))
    IN  IF ~enabled THEN Made(made, NoWriter, TRUE)
        ELSE Made(made, Len(made), TRUE)

\* a PropToFileLogWriter that does not ask for the filename
PropToFileLogWriter_AnyName(ws, props, enabled) ==
    IF ~enabled THEN Made(ws, NoWriter, TRUE)
    ELSE Made(Append(ws, NewWriter("file", enabled)), Len(ws) + 1, TRUE)

\* an unknown property is a warning; without filename the result is not good
PropToFileLogWriter(ws, props, enabled) ==
    IF ~HasProp(props, "filename") THEN Made(ws, NoWriter, FALSE)
    ELSE IF ~enabled THEN Made(ws, NoWriter, TRUE)
    ELSE Made(Append(ws, NewWriter("file", enabled)), Len(ws) + 1, TRUE)

propToSocketLogWriter(ws, props, enabled) ==
    IF ~HasProp(props, "endpoint") THEN Made(ws, NoWriter, FALSE)
    ELSE IF ~enabled THEN Made(ws, NoWriter, TRUE)
    ELSE Made(Append(ws, NewWriter("socket", enabled)), Len(ws) + 1, TRUE)

MakeLogWriter(ws, fc, enabled) ==
    CASE fc.Type = "console" ->
             propToConsoleLogWriter(ws, fc.Properties, enabled)
      [] fc.Type = "file" -> PropToFileLogWriter(ws, fc.Properties, enabled)
      [] fc.Type = "socket" ->
             propToSocketLogWriter(ws, fc.Properties, enabled)
      [] OTHER -> Made(ws, NoWriter, FALSE)

\* the loop of LoadConfigBuf over the descriptors; os.Exit(1) ends it
RECURSIVE LoadFilters(_, _)
LoadFilters(st, filters) ==
    IF filters = << >> THEN st
    ELSE LET fc == Head(filters)
             chk == CheckFilterConfig(fc)
             mk == MakeLogWriter(st.writers, fc, chk.enabled)
         IN  IF chk.bad THEN [st EXCEPT !.exited = TRUE]
             ELSE IF ~mk.good
             THEN [st EXCEPT !.writers = mk.ws, !.exited = TRUE]
             ELSE IF ~chk.enabled
             THEN LoadFilters([st EXCEPT !.writers = mk.ws], Tail(filters))
             ELSE IF mk.lw = NoWriter
             THEN [st EXCEPT !.writers = mk.ws, !.exited = TRUE]
             ELSE LoadFilters(
                      [st EXCEPT !.writers = mk.ws,
                                 !.logger = AddFilter(st.logger, fc.Tag,
                                                      chk.lvl, mk.lw)],
                      Tail(filters))

\* the descriptors tried: the well-formed ones of two tags, two levels and
\* two kinds of writer, enabled or not,
GoodDescriptors ==
    { [Enabled |-> e, Tag |-> t, Level |-> l, Type |-> k[1],
       Properties |-> k[2]] :
        e \in {"true", "false"}, t \in {"a", "b"}, l \in {"DEBUG", "ERROR"},
        k \in { << "console", << >> >>, << "file", << "filename" >> >> } }

\* and two of them with one thing changed: an attribute or a child missing,
\* a level or a type that does not exist, a required property missing, a
\* property that does not exist, a socket writer
Variants(d) ==
    { [d EXCEPT !.Enabled = ""], [d EXCEPT !.Tag = ""],
      [d EXCEPT !.Level = ""], [d EXCEPT !.Level = "LOUD"],
      [d EXCEPT !.Type = ""], [d EXCEPT !.Type = "xml"],
      [d EXCEPT !.Type = "file", !.Properties = << >>],
      [d EXCEPT !.Type = "file", !.Properties = << "filename", "colour" >>],
      [d EXCEPT !.Type = "console", !.Properties = << "colour" >>],
      [d EXCEPT !.Type = "socket", !.Properties = << >>],
      [d EXCEPT !.Type = "socket", !.Properties = << "endpoint" >>] }

Descriptors ==
    GoodDescriptors \cup
    UNION { Variants([Enabled |-> e, Tag |-> "b", Level |-> "DEBUG",
                      Type |-> "console", Properties |-> << >>]) :
              e \in {"true", "false"} }

\* what json.Unmarshal makes of the content of a configuration: an error,
\* or the descriptors
Contents ==
    {[ok |-> FALSE, filters |-> << >>]} \cup
    { [ok |-> TRUE, filters |-> f] :
        f \in UNION { [1 .. n -> Descriptors] : n \in 0 .. MaxFilters } }

\* a LoadConfigBuf that does not close the Logger first
LoadConfigBuf_NoClose(contents) ==
    /\ ~exited
    /\ calls.loads < MaxLoads
    /\ calls' = [calls EXCEPT !.loads = @ + 1, !.conf = contents]
    /\ IF ~contents.ok
       THEN /\ exited' = TRUE
            /\ UNCHANGED << logger, writers >>
       ELSE LET st == LoadFilters(
                          [logger |-> logger, writers |-> writers,
                           exited |-> FALSE], contents.filters)
            IN  /\ logger' = st.logger
                /\ writers' = st.writers
                /\ exited' = st.exited
    /\ UNCHANGED fileVars

\* LoadConfigBuf(contents): json.Unmarshal, log.Close(), the loop over the
\* descriptors
LoadConfigBuf(contents) ==
    /\ ~exited
    /\ calls.loads < MaxLoads
    /\ calls' = [calls EXCEPT !.loads = @ + 1, !.conf = contents]
    /\ IF ~contents.ok
       THEN /\ exited' = TRUE
            /\ UNCHANGED << logger, writers >>
       ELSE LET st == LoadFilters(
                          [logger |-> << >>,
                           writers |-> ClosedWriters(logger, writers),
                           exited |-> FALSE], contents.filters)
            IN  /\ logger' = st.logger
                /\ writers' = st.writers
                /\ exited' = st.exited
    /\ UNCHANGED fileVars

\* the Logger alone: AddFilter, Log, Close and LoadConfigBuf called one
\* after the other
LoggerCfg ==
    [maxrotate |-> 0, maxsize |-> 0, header |-> FALSE, footer |-> FALSE,
     mcap |-> 0, old |-> 0, msgs |-> 0, ticks |-> 0, prior |-> << >>, closes |-> MaxCloses, faults |-> FALSE,
     cal |-> << >>]

InitLogger ==
    /\ InitWith(LoggerCfg)
    /\ driver = [pc |-> "off", file |-> NoName]

NextLogger ==
    \/ \E t \in {"a", "b"}, l \in {Level.DEBUG, Level.ERROR} : LoggerAddFilter(t, l)
    \/ \E l \in Levels : LoggerLog(l)
    \/ LoggerClose
    \/ \E c \in Contents : LoadConfigBuf(c)

SpecLogger == InitLogger /\ [][NextLogger]_vars

(***************************************************************************)
(* Configuration of a writer before its first line: SetOption calls with   *)
(* values of every type, and PropToFileLogWriter on the properties of a    *)
(* file filter.                                                            *)
(***************************************************************************)
OptionNames ==
    {"filename", "flush", "maxrotate", "cycle", "delay0", "maxsize", "format",
     "head", "foot", "level"}

NumberInputs == {0 - 1, 0, 1, 2, 60}

DurationInputs ==
    { << "2", "4", "h" >>, << "1", "m" >>, << "9", "0", "s" >>, << "0", "h" >>,
      << "1", "h", "3", "0", "m" >>, << "1", "5", "0", "0", "u", "s" >>,
      << "2" >> }

SuffixInputs ==
    { << "7" >>, << "2", "K" >>, << "2", "k" >>, << "3", "M" >>, << "3", "m" >>,
      << "1", "G" >>, << "1", "g" >>, << "2", "G" >>, << "4", "G" >>,
      << " ", "5", "K", "\n" >>, << "K" >> }

StringInputs ==
    DurationInputs \cup SuffixInputs \cup { << >>, << "a", ".", "l", "o", "g" >> }

OptionValues ==
    {IntV(n) : n \in NumberInputs} \cup {Int64V(n) : n \in NumberInputs}
        \cup {StrV(str) : str \in StringInputs} \cup {BoolV}

PropNames == {"cycle", "maxsize", "delay0", "rotate", "color"}

PropValues == { << "1", "h" >>, << "2", "K" >> }

FilterProps == [Name : PropNames, Value : PropValues]

\* the properties of a file filter: a filename and up to MaxProps others, or
\* none at all
PropInputs ==
    { << >> } \cup
    { << [Name |-> "filename", Value |-> << "a", ".", "l", "o", "g" >>] >> \o rest :
        rest \in UNION {[1 .. k -> FilterProps] : k \in 0 .. MaxProps} }

InitOption ==
    /\ InitWith(LoggerCfg)
    /\ driver = [pc |-> "off", file |-> NoName]

NextOption ==
    \/ \E name \in OptionNames, v \in OptionValues : O_SetOption(name, v)
    \/ \E props \in PropInputs : O_PropToFileLogWriter(props)

SpecOption == InitOption /\ [][NextOption]_vars

(***************************************************************************)
(* One goroutine that uses the writer: it calls LogWrite and Close one     *)
(* after the other, in any order, and begins a call only when the call     *)
(* before has returned.  Close may be called a second time.                *)
(***************************************************************************)
UseCfg ==
    [maxrotate |-> 0, maxsize |-> 0, header |-> FALSE, footer |-> FALSE,
     mcap |-> MaxBuf, old |-> 0, msgs |-> MaxMsgs + 1, ticks |-> MaxTicks,
     prior |-> << >>, closes |-> MaxCloses + 1, faults |-> FALSE, cal |-> << >>]

InitUse ==
    /\ InitWith(UseCfg)
    /\ driver = [pc |-> "off", file |-> NoName]

\* the goroutine calls LogWrite
U_LogWrite ==
    /\ closer.pc = "idle"
    /\ LW_Call(1)

\* the goroutine calls Close
U_Close ==
    /\ prod[1].pc = "idle"
    /\ C_CloseChan

LoopUse(l) ==
    \/ L_Init(l) \/ L_Recv(l) \/ L_Tick(l) \/ L_WsChk(l) \/ L_WsOpen(l)
    \/ L_WsPut(l) \/ L_LenChk(l) \/ L_Close(l) \/ L_Exit(l)
    \/ L_RotSeek(l) \/ L_RotClose(l) \/ L_RotRemove(l)

NextUse ==
    \/ U_LogWrite \/ LW_Start(1) \/ LW_Send(1)
    \/ \E l \in LoopIds : LoopUse(l)
    \/ U_Close \/ C_Check \/ C_Wait
    \/ R_Poll \/ R_CloseChan \/ R_Drain

SpecUse == InitUse /\ [][NextUse]_vars

(***************************************************************************)
(* Headers: one producer and one write loop on a buffered queue, a header  *)
(* configured, the active file absent or left by an earlier run; every     *)
(* tick deletes the file.                                                  *)
(***************************************************************************)
HeadCfgSet ==
    { [maxrotate |-> 0, maxsize |-> 0, header |-> TRUE, footer |-> FALSE,
       mcap |-> MaxBuf, old |-> 0, msgs |-> MaxMsgs + 1, ticks |-> MaxTicks,
       prior |-> d, closes |-> MaxCloses, faults |-> FALSE, cal |-> << >>] :
      d \in { << >>, << OldTok(0) >> } }

InitHead ==
    /\ \E c \in HeadCfgSet : InitWith(c)
    /\ driver = [pc |-> "off", file |-> NoName]

LoopHead(l) ==
    \/ L_Init(l) \/ L_Recv(l) \/ L_Tick(l) \/ L_HdrSeek(l) \/ L_WsChk(l)
    \/ L_WsOpen(l) \/ L_WsPut(l) \/ L_LenChk(l) \/ L_Close(l) \/ L_Exit(l)
    \/ L_RotSeek(l) \/ L_RotClose(l) \/ L_RotRemove(l)

NextHead ==
    \/ U_LogWrite \/ LW_Start(1) \/ LW_Send(1)
    \/ \E l \in LoopIds : LoopHead(l)
    \/ U_Close \/ C_Check \/ C_Wait
    \/ R_Poll \/ R_CloseChan \/ R_Drain

SpecHead == InitHead /\ [][NextHead]_vars

(***************************************************************************)
(* The cycle the timer uses.  cfg.dcycle is the cycle the writer is        *)
(* constructed with: DefaultRotCycle, which is 86400 unless the            *)
(* application assigned the package variable (filelog.go 24-25, 96, 114),  *)
(* and the zero value in NewCacheFileLogWriter, which names no cycle       *)
(* (part_004 101-112).  SetOption("cycle", v) runs in the goroutine of its *)
(* caller while the write loop runs in its own: the store of lines         *)
(* 299-300, the replacement of lines 310-312 and the signal of lines       *)
(* 313-315 are three steps, and the loop may read f.cycle between them.    *)
(***************************************************************************)
DefaultCycles == {CycleReset, 0}

CycleCfgSet ==
    { [maxrotate |-> 0, maxsize |-> MaxMsgs, header |-> FALSE,
       footer |-> FALSE, mcap |-> MaxBuf, old |-> 0, msgs |-> MaxMsgs,
       ticks |-> MaxTicks + 1, prior |-> << >>, closes |-> MaxCloses,
       faults |-> FALSE, cal |-> << >>, dcycle |-> dc] :
      dc \in DefaultCycles }

InitCycle ==
    /\ \E c \in CycleCfgSet, d0 \in {-1, 0} : InitAt(c, 0, c.dcycle, d0)
    /\ driver = [pc |-> "off", file |-> NoName]

setFrame == << loggerVars, flw, ocall, cfg, now, delay0, isRunLoop, messages,
               msgClosed, closedLoop, prod, nextMsg, loop, nloops, closer,
               ticks, fwVars, rotVars, panic, hist >>

\* lines 299-300: f.cycle = int64(value)
SC_Store(v) ==
    /\ Alive
    /\ setter = "idle"
    /\ nsets < MaxSets
    /\ nsets' = nsets + 1
    /\ cycle' = v
    /\ setter' = "clamp"
    /\ UNCHANGED << setFrame, resetLoop >>

\* lines 310-312: if f.cycle < 2 { f.cycle = 86400 }
SC_Clamp ==
    /\ Alive
    /\ setter = "clamp"
    /\ cycle' = ClampCycle(cycle)
    /\ setter' = "signal"
    /\ UNCHANGED << setFrame, nsets, resetLoop >>

\* lines 313-315: if f.isRunLoop { f.resetLoop <- time.Now() }
SC_Signal ==
    /\ Alive
    /\ setter = "signal"
    /\ IF isRunLoop
       THEN /\ resetLoop < ResetCap
            /\ resetLoop' = resetLoop + 1
       ELSE UNCHANGED resetLoop
    /\ setter' = "idle"
    /\ UNCHANGED << setFrame, nsets, cycle >>

SetInputs == {0, 3}

NextCycle ==
    \/ U_LogWrite \/ LW_Start(1) \/ LW_Send(1)
    \/ \E l \in LoopIds : LoopReset(l)
    \/ \E v \in SetInputs : SC_Store(v)
    \/ SC_Clamp \/ SC_Signal

SpecCycle == InitCycle /\ [][NextCycle]_vars

(***************************************************************************)
(* Observations used by the properties                                     *)
(***************************************************************************)
IsMsg(t) == t >= 1

Pos(s, x) == CHOOSE i \in 1 .. Len(s) : s[i] = x

Count(s, x) == Cardinality({i \in 1 .. Len(s) : s[i] = x})

\* write loops that have been started and have not returned
LiveLoops == {l \in LoopIds : loop[l].pc \notin {"none", "dead"}}

\* occurrences of line m in the files (whatever their names) and in the buffer
RECURSIVE OnDisk(_, _)
OnDisk(k, m) ==
    IF k = 0 THEN 0 ELSE Count(inodes[k].data, m) + OnDisk(k - 1, m)

Occurrences(m) == OnDisk(Len(inodes), m) + Count(fwBuf, m)

\* line m has left the queue
Dequeued(m) ==
    /\ \E i \in 1 .. Len(hist.enq) : hist.enq[i] = m
    /\ \A i \in 1 .. Len(messages) : messages[i] # m

\* a loop is inside writeMessage for line m
Writing(m) ==
    \E l \in LoopIds :
        /\ loop[l].msg = m
        /\ loop[l].pc \in {"hdr_seek", "ws_chk", "ws_open", "ws_put"}
        /\ loop[l].ws # "foot"

\* Close has returned
Closed == closer.n > 0

\* Close was called with no LogWrite in progress, and none was made since
CleanClose == hist.quiet /\ nextMsg = hist.next

\* LogWrite is used as documented: it is not called while Close runs or after
Proper == ~msgClosed \/ CleanClose

\* the lines written so far, without header and footer
WrittenLines == SelectSeq(hist.wrote, IsMsg)

\* Shifter goroutines that have been started and have not returned
LiveWorkers == {w \in WorkerIds : worker[w].pc \notin {"none", "dead"}}

\* the backup slots that exist
Slots == {n \in 1 .. RotSlots : Exists(inodes, SlotName(n))}

SlotData(n) == inodes[Lookup(inodes, SlotName(n))].data

Min(a, b) == IF a < b THEN a ELSE b

\* every Rotate call has returned, its item has been processed, no Shifter
\* worker is left and FileRotate.Close has not been called
ShifterIdle ==
    /\ driver.pc = "idle"
    /\ rfiles = << >>
    /\ LiveWorkers = {}
    /\ closer.pc = "idle"
    /\ closer.n = 0

\* the files that were the active file once: renamed or deleted since
Rotated == {i \in 1 .. Len(inodes) : inodes[i].name # ActiveName}

\* write loop l takes the step that ends its rotation check (intRotate line 225)
ChkStep(l) == loop[l].pc = "rot_seek" /\ loop'[l].pc # "rot_seek"

\* every write loop waits in its select, nothing is queued or in a buffer
LoopsIdle ==
    /\ LiveLoops # {}
    /\ \A l \in LiveLoops : loop[l].pc = "select"
    /\ messages = << >>
    /\ fwBuf = << >>
    /\ \A p \in Producers : prod[p].pc = "idle"

(***************************************************************************)
(* The claims.                                                             *)
(***************************************************************************)
\* C1: two records passed to LogWrite in some order are written to the output
\* in that order: the lines written appear in the order they were enqueued.
C1_WrittenInEnqueueOrder ==
    Proper =>
        \A i, j \in 1 .. Len(WrittenLines) :
            i < j => Pos(hist.enq, WrittenLines[i]) < Pos(hist.enq, WrittenLines[j])

\* C2: a line accepted by LogWrite is in the files and the buffer at most
\* once, and exactly once as soon as the write loop has dequeued and written
\* it.
C2_EveryLineExactlyOnce ==
    Proper =>
        \A m \in 1 .. MaxMsgs :
            /\ Occurrences(m) <= 1
            /\ (Dequeued(m) /\ ~Writing(m)) => Occurrences(m) = 1

\* C3: when Close has returned, every line enqueued before Close was called
\* is in a file.
C3_EnqueuedLinesOnDiskAfterClose ==
    (Closed /\ CleanClose) =>
        \A i \in 1 .. Len(hist.atClose) :
            OnDisk(Len(inodes), hist.atClose[i]) >= 1

\* C4: the shutdown order of Close: the write loop signals its exit only
\* after the queue is closed and drained and the handle is flushed and
\* closed; Close goes on to close the Shifter, and returns, only after every
\* write loop has exited and the handle is closed.
C4_CloseWaitsForLoopAndHandle ==
    CleanClose =>
        /\ closedLoop =>
              (msgClosed /\ messages = << >> /\ fwBuf = << >> /\ handles = 0)
        /\ (closer.pc \in {"rot", "rclose", "drain"} \/ Closed) =>
              (msgClosed /\ LiveLoops = {} /\ handles = 0)

\* a LogWrite call waits at its send because the queue is full
Blocked(p) == prod[p].pc = "send" /\ Len(messages) >= cfg.mcap

\* C5: a LogWrite call that finds the queue full waits, and returns once its
\* line is enqueued, under fair scheduling of the write loop and the
\* producers.
C5_BlockedLogWriteReturns ==
    \A p \in Producers : Blocked(p) ~> (prod[p].pc = "idle")

\* C6: no write loop exists before the first LogWrite, and at most one write
\* loop exists at any time, however the LogWrite calls of several producers
\* interleave.
C6_AtMostOneWriteLoop ==
    /\ nextMsg = 1 => nloops = 0
    /\ Proper => Cardinality(LiveLoops) <= 1

\* C7: at most one Shifter worker exists per FileRotate at any time.
C7_AtMostOneShifter == Cardinality(LiveWorkers) <= 1

\* C8: starting without backups, once k rotations have been processed the
\* slots 1 .. min(k, maxrotate) exist and slot i holds the i-th most recent
\* rotation.
C8_BackupsAfterRotations ==
    ShifterIdle =>
        /\ Slots = 1 .. Min(nrot, RotSlots)
        /\ \A n \in Slots : SlotData(n) = << nrot - n + 1 >>

\* the backups form a contiguous run of slots starting at 1
Contiguous ==
    \A n \in 2 .. RotSlots :
        Exists(inodes, SlotName(n)) => Exists(inodes, SlotName(n - 1))

\* C9: the numbered backups form a contiguous run .001 .. k, k <= maxrotate.
\* The claim is about every reachable state; it is stated here for the states
\* that favour it most, those in which every queued rotation has been
\* processed and no Shifter worker is active, and fails there too.
C9_ContiguousBackups == ShifterIdle => Contiguous

\* C10: at most one file handle is open per file writer at any time.
C10_AtMostOneHandle == Proper => handles <= 1

(***************************************************************************)
(* What one write loop guarantees.  The properties C1 to C5 and C10        *)
(* restricted to the runs in which LogWrite started a single write loop.   *)
(***************************************************************************)
OneLoop_Order == nloops <= 1 => C1_WrittenInEnqueueOrder

OneLoop_ExactlyOnce == nloops <= 1 => C2_EveryLineExactlyOnce

OneLoop_Close ==
    nloops <= 1 => (C3_EnqueuedLinesOnDiskAfterClose /\ C4_CloseWaitsForLoopAndHandle)

OneLoop_Handle == nloops <= 1 => (C10_AtMostOneHandle /\ (Proper => Alive))

\* under SpecBack
OneLoop_Returns ==
    \A p \in Producers :
        (Blocked(p) /\ nloops <= 1) ~> (prod[p].pc = "idle" \/ nloops > 1)

(***************************************************************************)
(* Rotation by size (SpecSize).                                            *)
(***************************************************************************)
\* C11: a file whose size is below maxsize is never renamed or deleted, and
\* so never handed to the Shifter, however many timer ticks arrive: every
\* file that was renamed or deleted had reached maxsize.
C11_NoRotationBelowThreshold ==
    \A i \in Rotated : Len(inodes[i].data) >= cfg.maxsize

\* with one write loop the rotation check leaves a file below maxsize alone
OneLoop_NoRotationBelow == nloops <= 1 => C11_NoRotationBelowThreshold

\* C12: the rotation check run on a timer tick goes on to rotate (or delete)
\* the active file if and only if the file exists and its size is at or
\* above maxsize.
C12_RotatesIffAtOrAboveMaxsize ==
    [][\A l \in LoopIds :
          ChkStep(l) =>
             ((loop'[l].pc # "select")
                 <=> (Exists(inodes, ActiveName)
                        /\ FileSize(inodes, ActiveName) >= cfg.maxsize))]_vars

\* what the check does with one write loop: it rotates if and only if the
\* file exists and its size is above maxsize
OneLoop_RotatesIffAbove ==
    [][\A l \in LoopIds :
          (nloops <= 1 /\ ChkStep(l)) =>
             ((loop'[l].pc # "select")
                 <=> (Exists(inodes, ActiveName)
                        /\ FileSize(inodes, ActiveName) > cfg.maxsize))]_vars

\* C13 as stated: a size breach triggers the rotation without a timer tick,
\* so a write loop never waits in its select with a file above maxsize.
C13_SizeBreachRotates ==
    \A l \in LiveLoops :
        loop[l].pc = "select" => FileSize(inodes, ActiveName) <= cfg.maxsize

\* C13, amended: rotation starts only in the check run on a timer tick: as
\* long as no tick has arrived nothing is renamed, deleted or handed to the
\* Shifter, whatever the size of the active file.
C13_RotationOnlyOnTick ==
    ticks = 0 =>
        /\ Rotated = {}
        /\ nrot = 0
        /\ rfiles = << >>
        /\ nworkers = 0

\* the file is above maxsize, every line is written, the loop waits, no tick
\* has arrived and nothing was rotated
C13_BreachWithoutTick ==
    /\ ticks = 0
    /\ LoopsIdle
    /\ FileSize(inodes, ActiveName) > cfg.maxsize
    /\ Rotated = {}

(***************************************************************************)
(* Rotation by deletion and the file after a rotation (Spec).              *)
(***************************************************************************)
\* write loop l takes a step
LoopStep(l) == loop'[l] # loop[l]

\* C14: with maxrotate <= 0 the rotation check that finds the file over the
\* threshold closes the writer, deletes the active file and returns; no
\* temporary file and no numbered backup is created, nothing is queued for
\* the Shifter and no Shifter worker is started.
C14_DeleteWhenNoBackups ==
    [][cfg.maxrotate <= 0 =>
         /\ \A i \in 1 .. Len(inodes') : inodes'[i].name \in {ActiveName, Gone}
         /\ nrot' = 0 /\ rfiles' = << >> /\ nworkers' = 0
         /\ \A l \in LoopIds :
               /\ (loop[l].pc = "rot_close" /\ LoopStep(l)) =>
                      loop'[l].pc = "rot_rm"
               /\ (loop[l].pc = "rot_rm" /\ LoopStep(l)) =>
                      (~Exists(inodes', ActiveName) /\ loop'[l].pc = "select")]_vars

\* a rotation by deletion has taken place: the file is gone, the loop is back
C14_Deleted ==
    /\ cfg.maxrotate <= 0
    /\ \E i \in 1 .. Len(inodes) : inodes[i].name = Gone /\ inodes[i].data # << >>
    /\ ~Exists(inodes, ActiveName)
    /\ \A l \in LiveLoops : loop[l].pc = "select"
    /\ LiveLoops # {}

\* C15: after intRotate has renamed the active file the writer holds no open
\* handle, and a handle opened later is on the file under the original name:
\* no line written after the rename goes to the renamed file.
C15_FreshFileAfterRename ==
    cfg.maxrotate > 0 =>
        /\ \A l \in LoopIds :
              loop[l].pc \in {"rot_send", "rot_cnt"} => (fwFile = 0 /\ handles = 0)
        /\ fwFile # 0 => inodes[fwFile].name = ActiveName

\* with one write loop the handle is closed before the rename and the next
\* line opens a new file
OneLoop_FreshFile == nloops <= 1 => C15_FreshFileAfterRename

(***************************************************************************)
(* I/O errors (SpecFault).                                                 *)
(***************************************************************************)
\* write loop l leaves the os.Rename of intRotate without a file renamed
RenameFailed(l) == loop[l].pc = "rot_ren" /\ LoopStep(l) /\ nrot' = nrot

\* write loop l leaves fw.open or fmt.Fprint of WriteString with an error
WriteFailed(l) ==
    \/ loop[l].pc = "ws_open" /\ LoopStep(l) /\ loop'[l].pc # "ws_put"
    \/ loop[l].pc = "ws_put" /\ LoopStep(l) /\ hist'.wrote = hist.wrote

\* C16: when the rename of the active file fails the rotation step ends
\* there: nothing is handed to the Shifter, no file changes its name, and
\* the write loop is back in its select, ready for the next line.
C16_RenameFailureAborts ==
    [][\A l \in LoopIds :
          RenameFailed(l) =>
              /\ inodes' = inodes
              /\ rfiles' = rfiles
              /\ nworkers' = nworkers
              /\ rcount' = rcount
              /\ loop'[l].pc = "select"
              /\ panic' = "none"]_vars

\* the rename has failed: the writer is closed, the file is still there under
\* its name with its lines, nothing was handed over, the loop waits
C16_FileKeptAfterFailure ==
    /\ cfg.faults
    /\ ~msgClosed
    /\ Alive
    /\ ticks > 0
    /\ fwFile = 0
    /\ FileSize(inodes, ActiveName) > 0
    /\ nrot = 0
    /\ rfiles = << >>
    /\ LiveLoops # {}
    /\ \A l \in LiveLoops : loop[l].pc = "select"

\* C17: a failed open or write does not end or stop the write loop: the loop
\* goes on to the flush and the next receive, and a write loop leaves its
\* for loop only when the message queue has been closed.
C17_LoopSurvivesIoFailure ==
    [][/\ \A l \in LoopIds :
             WriteFailed(l) =>
                 /\ loop'[l].pc = AfterPut(l)
                 /\ loop'[l].ok = loop[l].ok
                 /\ panic' = "none"
       /\ \A l \in LoopIds :
             loop'[l].pc \in {"close", "exit", "dead"} => msgClosed']_vars

\* a line was lost to a failed open or write, a later line is in the file,
\* and the loop is running
C17_LaterLineWritten ==
    /\ cfg.faults
    /\ ~msgClosed
    /\ Alive
    /\ messages = << >>
    /\ LiveLoops # {}
    /\ \A l \in LiveLoops : loop[l].pc = "select"
    /\ \E i, j \in 1 .. Len(hist.enq) :
          /\ i < j
          /\ Occurrences(hist.enq[i]) = 0
          /\ Occurrences(hist.enq[j]) > 0

(***************************************************************************)
(* Reconfiguration of the timer (SpecReset) and nextRotateTime (SpecTime). *)
(***************************************************************************)
\* a SetOption call executes
SetOptionStep == nsets' # nsets

\* a write loop takes a reset signal from f.resetLoop
ResetStep == resetLoop' < resetLoop

\* C18: while a write loop is running, a SetOption call does not write
\* f.cycle or f.delay0, the fields the loop reads: the change reaches the
\* loop through the reset signal only.
C18_NoDirectWriteWhileRunning ==
    [][(SetOptionStep /\ LiveLoops # {}) =>
          (cycle' = cycle /\ delay0' = delay0)]_vars

NextMidnight(t) == DayStart(DayOf(t) + 1)

\* C20: the instant computed by nextRotateTime at the start of a write loop
\* is the next midnight plus delay0 seconds, and later than now, when
\* delay0 >= 0, and now plus cycle seconds when delay0 < 0.
C20_NextRotateTime ==
    \A l \in LoopIds :
        loop[l].pc = "select" =>
            IF delay0 >= 0
            THEN /\ loop[l].nrt = NextMidnight(now) + delay0
                 /\ loop[l].nrt > now
            ELSE loop[l].nrt = now + cycle

\* in a zone that never changes its offset nextRotateTime is as C20 says
FixedOffset_NextRotateTime == cfg.cal = << >> => C20_NextRotateTime

(***************************************************************************)
(* The Shifter and Close (SpecRot).                                        *)
(***************************************************************************)
\* the file each numbered backup name refers to (0: the slot is empty)
SlotInode == [n \in 1 .. RotSlots |-> Lookup(inodes, SlotName(n))]

\* C21: once FileRotate.Close has returned no worker touches the numbered
\* backups, and an item that Close reported as not rotated is still under
\* its temporary name: it is never renamed into a slot.
C21_NoShiftAfterClose ==
    [][closer.n >= 1 =>
          /\ SlotInode' = SlotInode
          /\ \A f \in notRotated' : Exists(inodes', f)]_vars

\* C26: while Close has not been called and no Rotate call is in progress,
\* an item never sits in the queue without a worker to take it.
C26_QueuedItemHasWorker ==
    (driver.pc = "idle" /\ closer.pc = "idle" /\ closer.n = 0) =>
        (rfiles # << >> => LiveWorkers # {})

\* C27: the write loop is never blocked for ever in the rotation step while
\* it hands a file to the Shifter (and so a Close that waits for the loop
\* returns), under fair scheduling of the loop and the workers.
C27_HandOverReturns ==
    \A l \in LoopIds : (loop[l].pc = "rot_send") ~> (loop[l].pc # "rot_send")

\* a worker executes os.Remove (line 66) or an os.Rename (lines 77, 83)
ShiftStep(w) == worker[w].pc \in {"full", "shift"} /\ worker'[w] # worker[w]

\* what one step of a worker may do to the numbered slots: delete slot
\* maxrotate when every slot is taken, move slot n - 1 into the free slot n,
\* move the pending file into the free slot 1
ItemFrame(w) ==
    LET n == worker[w].n
        r == worker[w].rotate
    IN  IF worker[w].pc = "full"
        THEN /\ \A k \in 1 .. r : SlotInode[k] # 0
             /\ SlotInode' = [SlotInode EXCEPT ![r] = 0]
        ELSE IF n > 1
        THEN /\ SlotInode[n] = 0
             /\ SlotInode' = [SlotInode EXCEPT ![n] = SlotInode[n - 1],
                                               ![n - 1] = 0]
        ELSE /\ SlotInode[1] = 0
             /\ SlotInode' = [SlotInode EXCEPT
                                ![1] = Lookup(inodes, worker[w].file)]

ShifterFrame ==
    /\ \A w \in WorkerIds : ShiftStep(w) => ItemFrame(w)
    /\ (SlotInode' # SlotInode => \E w \in WorkerIds : ShiftStep(w))

\* C28: processing one item, the Shifter shifts the slots below the first
\* missing slot up by one, each into a free slot, and renames the pending
\* file into the free slot 1; every other slot is unchanged; a backup is
\* deleted only when all maxrotate slots are taken, and then it is slot
\* maxrotate.
C28_ShifterFrame == [][ShifterFrame]_vars

\* the same with a single worker started
OneWorker_ShifterFrame == [][nworkers <= 1 => ShifterFrame]_vars

(* The order of the steps of one rotation (Spec). *)
\* the content of the file that has the active name
ActiveData == inodes[Lookup(inodes, ActiveName)].data

\* what holds when write loop l executes os.Remove or os.Rename on the
\* active file (the writer has no handle on it, its last content is the
\* footer if one is configured) and when it hands a name to the Shifter (the
\* file has that name)
RotationOrder(l) ==
    /\ loop[l].pc \in {"rot_rm", "rot_ren"} /\ Exists(inodes, ActiveName) =>
          /\ fwFile # Lookup(inodes, ActiveName)
          /\ cfg.footer => /\ ActiveData # << >>
                           /\ ActiveData[Len(ActiveData)] = FooterTok
    /\ loop[l].pc = "rot_send" => Exists(inodes, loop[l].tmp)

\* C29: within one rotation the footer is the last content of the old file,
\* the file is flushed and closed before it is renamed or deleted, and a
\* name is handed to the Shifter only after the rename to it succeeded; the
\* file is never renamed or deleted while its handle is open.
C29_RotationStepOrder ==
    [][\A l \in LoopIds : LoopStep(l) => RotationOrder(l)]_vars

\* the same with a single write loop started
OneLoop_RotationStepOrder ==
    [][nloops <= 1 => \A l \in LoopIds : LoopStep(l) => RotationOrder(l)]_vars

(* Reset signals that find nothing changed (SpecReset). *)
\* every write loop that can receive the signal last applied the present
\* values of f.cycle and f.delay0
NothingChanged ==
    \A l \in LoopIds :
        loop[l].pc = "select" => (loop[l].oc = cycle /\ loop[l].od = delay0)

\* C30: a reset signal received while cycle and delay0 equal the values the
\* loop applied last is ignored: the next rotation instant, the timer and
\* the queue are unchanged, and nothing is written.
C30_UnchangedResetIgnored ==
    [][(ResetStep /\ NothingChanged) =>
          /\ loop' = loop
          /\ ticks' = ticks
          /\ messages' = messages
          /\ cycle' = cycle /\ delay0' = delay0
          /\ fwBuf' = fwBuf /\ inodes' = inodes
          /\ hist'.wrote = hist.wrote]_vars

\* a reset signal was ignored by a loop for which nextRotateTime would now
\* give another instant than the one it waits for
C30_ResetIgnored ==
    /\ hist.skipped > 0
    /\ \E l \in LiveLoops :
          /\ loop[l].pc = "select"
          /\ loop[l].oc = cycle /\ loop[l].od = delay0
          /\ loop[l].nrt # nextRotateTime(now, cycle, delay0)

(***************************************************************************)
(* The Logger (SpecLogger).                                                *)
(***************************************************************************)
LogStep == calls'.logs = calls.logs + 1
LoggerCloseStep == calls'.closes = calls.closes + 1
LoadStep == calls'.loads = calls.loads + 1

\* C22: Log(level, ...) delivers the record once to each filter whose
\* threshold is at or below level in the order FINEST < FINE < DEBUG <
\* TRACE < INFO < WARNING < ERROR < CRITICAL, and to no other filter.
C22_LogDeliversByThreshold ==
    [][LogStep =>
          /\ Len(writers') = Len(writers)
          /\ logger' = logger
          /\ \E lvl \in Levels :
                \A w \in 1 .. Len(writers) :
                    writers'[w] =
                        IF \E t \in DOMAIN logger :
                              /\ logger[t].LogWriter = w
                              /\ logger[t].Level <= lvl
                        THEN [writers[w] EXCEPT
                                !.recs = Append(@, [Level |-> lvl,
                                                    n |-> calls'.logs])]
                        ELSE writers[w]]_vars

\* a WARNING record has reached the writer of a DEBUG filter and not the
\* writer of an ERROR filter of the same Logger
C22_WarningReachesDebugOnly ==
    \E t, u \in DOMAIN logger :
        /\ logger[t].Level = Level.DEBUG
        /\ logger[u].Level = Level.ERROR
        /\ writers[logger[u].LogWriter].recs = << >>
        /\ \E i \in 1 .. Len(writers[logger[t].LogWriter].recs) :
              writers[logger[t].LogWriter].recs[i].Level = Level.WARNING

EnabledTags(filters, k) ==
    {filters[i].Tag : i \in {j \in 1 .. k : filters[j].Enabled # "false"}}

\* C24: a descriptor with enabled = false is only checked: no writer is
\* constructed for it and it is not added; after loading, the Logger
\* contains exactly the tags of the enabled descriptors.
C24_DisabledOnlyChecked ==
    [][(LoadStep /\ calls'.conf.ok) =>
          /\ \A w \in (Len(writers) + 1) .. Len(writers') : writers'[w].enabled
          /\ ~exited' =>
                DOMAIN logger' =
                    EnabledTags(calls'.conf.filters,
                                Len(calls'.conf.filters))]_vars

\* the same for configurations without a disabled console descriptor
OtherKinds_DisabledOnlyChecked ==
    [][(/\ LoadStep /\ calls'.conf.ok
        /\ \A i \in 1 .. Len(calls'.conf.filters) :
              ~(/\ calls'.conf.filters[i].Enabled = "false"
                /\ calls'.conf.filters[i].Type = "console")) =>
          /\ \A w \in (Len(writers) + 1) .. Len(writers') : writers'[w].enabled
          /\ ~exited' =>
                DOMAIN logger' =
                    EnabledTags(calls'.conf.filters,
                                Len(calls'.conf.filters))]_vars

\* the errors of a descriptor that end the loading: an attribute or child
\* missing, a level or a type that does not exist, a required property
\* missing
Rejected(fc) ==
    \/ fc.Enabled = "" \/ fc.Tag = "" \/ fc.Type = "" \/ fc.Level = ""
    \/ fc.Level \notin {"FINEST", "FINE", "DEBUG", "TRACE", "INFO", "WARNING",
                        "ERROR", "CRITICAL"}
    \/ fc.Type \notin {"console", "file", "socket"}
    \/ (fc.Type = "file" /\ ~HasProp(fc.Properties, "filename"))
    \/ (fc.Type = "socket" /\ ~HasProp(fc.Properties, "endpoint"))

\* a property the writer of the descriptor does not have
UnknownProperty(fc) ==
    \E i \in 1 .. Len(fc.Properties) :
        fc.Properties[i] \notin {"filename", "endpoint", "format"}

\* the descriptors before the first one that satisfies Err, all of them if
\* none does
Before(filters, Err(_)) ==
    IF \E i \in 1 .. Len(filters) : Err(filters[i])
    THEN (CHOOSE i \in 1 .. Len(filters) :
              /\ Err(filters[i])
              /\ \A j \in 1 .. (i - 1) : ~Err(filters[j])) - 1
    ELSE Len(filters)

AnyError(fc) == Rejected(fc) \/ UnknownProperty(fc)

\* loading ends at the first descriptor that satisfies Err, by os.Exit, and
\* the Logger has the enabled descriptors before it
EndsAtFirst(Err(_)) ==
    (LoadStep /\ calls'.conf.ok) =>
        LET fs == calls'.conf.filters
        IN  /\ exited' = (\E i \in 1 .. Len(fs) : Err(fs[i]))
            /\ DOMAIN logger' = EnabledTags(fs, Before(fs, Err))

\* C25 as stated: every configuration error of a descriptor, an unknown
\* property name included, makes the construction fail and ends the
\* loading; the descriptor is not added.
C25_AnyErrorAborts == [][EndsAtFirst(AnyError)]_vars

\* C25, amended: a missing attribute or child, an unknown level or type and
\* a missing required property end the loading and the descriptor is not
\* added; an unknown property name is reported and the writer is
\* constructed and added.
C25_RejectedAborts == [][EndsAtFirst(Rejected)]_vars

\* loading ended at the second descriptor, the first one is in the Logger
C25_AbortedAtSecond ==
    /\ exited
    /\ calls.conf.ok
    /\ Len(calls.conf.filters) = 2
    /\ ~Rejected(calls.conf.filters[1])
    /\ Rejected(calls.conf.filters[2])
    /\ DOMAIN logger = {calls.conf.filters[1].Tag}

(***************************************************************************)
(* The write loop at rest, Close and LogWrite after Close, the counter of  *)
(* the Shifter.                                                            *)
(***************************************************************************)
\* write loop l waits in its select and the queue is empty
Waiting(l) == loop[l].pc = "select" /\ messages = << >>

\* C32: whenever a write loop waits for events with the queue empty, the
\* line it dequeued last (and so every line it has dequeued) has left the
\* buffered writer for the file.
C32_IdleLoopHasFlushed ==
    \A l \in LiveLoops :
        (Waiting(l) /\ IsMsg(loop[l].msg)) =>
            \A i \in 1 .. Len(fwBuf) : fwBuf[i] # loop[l].msg

\* with a single write loop, no line at all is in the buffer while the loop
\* waits with the queue empty
OneLoop_IdleLoopHasFlushed ==
    nloops <= 1 =>
        \A l \in LiveLoops :
            Waiting(l) => \A i \in 1 .. Len(fwBuf) : ~IsMsg(fwBuf[i])

\* C38: after Close has returned, a further Close or LogWrite does not send
\* on or close a closed channel (the process does not panic) and starts no
\* write loop: once Close has returned no write loop is alive, and the
\* loop-exit channel is closed once at most.
C38_NothingAfterClose == Closed => (Alive /\ LiveLoops = {})

\* C39: the worker counter of the Shifter is 0 or 1 and equals the number of
\* worker goroutines alive: it is never negative, and 0 when no worker runs.
C39_CounterIsLiveWorkers ==
    /\ rcount \in {0, 1}
    /\ rcount = Cardinality(LiveWorkers)

\* the workers between their r.count++ and their r.count--
Counted == {w \in LiveWorkers : worker[w].pc # "start"}

\* what the counter does count: the workers that have executed r.count++ and
\* not yet r.count--; it is never negative and 0 when no worker is alive
CountsIncremented == rcount = Cardinality(Counted)

(***************************************************************************)
(* Headers.                                                                *)
(***************************************************************************)
\* what file i holds once the buffer of the handle open on it is flushed
Content(i) == inodes[i].data \o (IF fwFile = i THEN fwBuf ELSE << >>)

\* file i was left by an earlier run
IsPrior(i) == inodes[i].data # << >> /\ inodes[i].data[1] = OldTok(0)

\* C36: a file the writer has created holds the configured header exactly
\* once, as its first content, whatever was queued or buffered when it was
\* opened; a file that existed with content gets no header.
C36_HeaderOncePerFile ==
    \A i \in 1 .. Len(inodes) :
        IF IsPrior(i)
        THEN Count(Content(i), HeaderTok) = 0
        ELSE Content(i) # << >> =>
                /\ Content(i)[1] = HeaderTok
                /\ Count(Content(i), HeaderTok) = 1

\* the part of C36 that the position of the handle does decide: a file the
\* writer has created begins with the header, and a file that existed with
\* content does not get one before the first line written to it
HeaderBeforeFirstLine ==
    \A i \in 1 .. Len(inodes) :
        Content(i) # << >> =>
            Content(i)[1] = (IF IsPrior(i) THEN OldTok(0) ELSE HeaderTok)

(***************************************************************************)
(* Options.                                                                *)
(***************************************************************************)
\* the step is a SetOption call, a PropToFileLogWriter call
OptionStep == ocall'.n = ocall.n + 1 /\ ocall'.op = "SetOption"
PropStep == ocall'.n = ocall.n + 1 /\ ocall'.op = "PropToFileLogWriter"

IsInteger(v) == v.t \in {"int", "int64"}

\* C31: a cycle set to a value below 2 seconds is clamped to the minimum of
\* 2 seconds: after SetOption("cycle", n) the cycle is max(n, 2).
C31_ClampedToTwo ==
    [][(OptionStep /\ ocall'.name = "cycle" /\ IsInteger(ocall'.v)) =>
          flw'.cycle = (IF ocall'.v.n < 2 THEN 2 ELSE ocall'.v.n)]_vars

\* C31, amended: after SetOption("cycle", v) has returned nil the cycle is at
\* least 2; an integer of 2 or more is kept, and an integer below 2 is
\* replaced by 86400 (one day), not by 2.
C31_BelowTwoIsOneDay ==
    [][(OptionStep /\ ocall'.name = "cycle" /\ ocall'.err = "nil") =>
          /\ flw'.cycle >= 2
          /\ IsInteger(ocall'.v) =>
                flw'.cycle = (IF ocall'.v.n < 2 THEN CycleReset ELSE ocall'.v.n)]_vars

\* SetOption("cycle", 1), the second call on the writer, has returned and the
\* cycle is one day
C31_OneSecondGivesOneDay ==
    /\ ocall.n = 2
    /\ ocall.op = "SetOption"
    /\ ocall.name = "cycle"
    /\ ocall.v = IntV(1)
    /\ flw.cycle = CycleReset

\* str denotes a whole number of seconds
WholeSeconds(str) ==
    /\ ParseDuration(str).ok
    /\ ParseDuration(str).ms % 1000 = 0
    /\ ParseDuration(str).ns = 0

SecondsOf(str) == ParseDuration(str).ms \div 1000

\* C33: SetOption("cycle", s) and SetOption("delay0", s) with a duration
\* string s store the number of seconds that s denotes: the writer is as
\* after the call with that number of seconds as an integer.
C33_DurationStoredAsSeconds ==
    [][(OptionStep /\ ocall'.name \in {"cycle", "delay0"}
            /\ ocall'.v.t = "string" /\ WholeSeconds(ocall'.v.s)) =>
          flw' = SetOption(flw, ocall'.name, IntV(SecondsOf(ocall'.v.s))).f]_vars

\* what the code stores: the number of milliseconds
DurationStoredAsMilliseconds ==
    [][(OptionStep /\ ocall'.name \in {"cycle", "delay0"}
            /\ ocall'.v.t = "string" /\ WholeSeconds(ocall'.v.s)) =>
          flw' = SetOption(flw, ocall'.name,
                           IntV(1000 * SecondsOf(ocall'.v.s))).f]_vars

\* the properties of the name, and the value of the last of them
Named(props, name) == {i \in 1 .. Len(props) : props[i].Name = name}

ValueOf(props, name) ==
    Trim(props[CHOOSE i \in Named(props, name) :
                   \A j \in Named(props, name) : j <= i].Value)

\* C34: a writer built from a filter descriptor has each option set by the
\* property of the same name only: its cycle is what the cycle property
\* sets, its maxsize what the maxsize property sets, and the default when
\* there is no maxsize property, whatever the cycle property is.
C34_PropertySetsItsOption ==
    [][(PropStep /\ ocall'.err = "nil") =>
          /\ Named(ocall'.props, "cycle") # {} =>
                flw'.cycle = SetOption(flw', "cycle",
                                 StrV(ValueOf(ocall'.props, "cycle"))).f.cycle
          /\ flw'.maxsize =
                SetOption(flw', "maxsize",
                    StrV(IF Named(ocall'.props, "maxsize") # {}
                         THEN ValueOf(ocall'.props, "maxsize")
                         ELSE PropLocals.maxsize)).f.maxsize]_vars

\* str is the decimal string of a number, followed or not by K, M or G
SuffixLetters == {"K", "k", "M", "m", "G", "g"}

NumberPart(str) ==
    IF str[Len(str)] \in SuffixLetters THEN SubSeq(str, 1, Len(str) - 1) ELSE str

IsDecimalSuffix(str) ==
    /\ str # << >>
    /\ NumberPart(str) # << >>
    /\ \A i \in 1 .. Len(NumberPart(str)) : IsDigit(NumberPart(str)[i])

\* the power of 1024 that the last letter of str stands for
PowerOf(str) ==
    CASE str[Len(str)] \in {"K", "k"} -> 1024
      [] str[Len(str)] \in {"M", "m"} -> 1024 * 1024
      [] str[Len(str)] \in {"G", "g"} -> 1024 * 1024 * 1024
      [] OTHER -> 1

\* res = n * p, stated without computing a product that has no int
IsProduct(res, n, p) == res >= 0 /\ res % p = 0 /\ res \div p = n

\* C35: for the decimal string of n, followed or not by K, M or G in either
\* case, StrToNumSuffix with multiplier 1024 returns n times the matching
\* power of 1024 (here: the maxsize that SetOption stores).
C35_SuffixMultiplies ==
    [][(OptionStep /\ ocall'.name = "maxsize" /\ ocall'.v.t = "string"
            /\ IsDecimalSuffix(ocall'.v.s)) =>
          IsProduct(flw'.maxsize, AtoiDigits(NumberPart(ocall'.v.s), 0),
                    PowerOf(ocall'.v.s))]_vars

\* the same for the numbers whose product is an int of the build
InRange_SuffixMultiplies ==
    [][(OptionStep /\ ocall'.name = "maxsize" /\ ocall'.v.t = "string"
            /\ IsDecimalSuffix(ocall'.v.s)
            /\ AtoiDigits(NumberPart(ocall'.v.s), 0)
                  <= MaxInt \div PowerOf(ocall'.v.s)) =>
          IsProduct(flw'.maxsize, AtoiDigits(NumberPart(ocall'.v.s), 0),
                    PowerOf(ocall'.v.s))]_vars

\* the option names of SetOption and the dynamic types each accepts
KnownOptions ==
    {"filename", "flush", "maxrotate", "cycle", "delay0", "maxsize", "format",
     "head", "foot"}

SupportedTypes(name) ==
    CASE name \in {"flush", "maxrotate"} -> {"int", "string"}
      [] name \in {"cycle", "delay0", "maxsize"} -> {"int", "int64", "string"}
      [] OTHER -> {"string"}

\* C37: SetOption returns ErrBadOption for a name it does not know and
\* ErrBadValue for a value of an unsupported type or an empty filename, and
\* whenever it returns an error every option is as it was before the call.
C37_ErrorsLeaveOptions ==
    [][OptionStep =>
          /\ ocall'.name \notin KnownOptions => ocall'.err = "ErrBadOption"
          /\ (/\ ocall'.name \in KnownOptions
              /\ \/ ocall'.v.t \notin SupportedTypes(ocall'.name)
                 \/ ocall'.name = "filename" /\ ocall'.v.s = << >>) =>
                ocall'.err = "ErrBadValue"
          /\ ocall'.err # "nil" => flw' = flw]_vars

\* what does hold of the errors: ErrBadOption exactly for the unknown names,
\* ErrBadValue for every unsupported type, and no option other than format,
\* header and footer changed by a call that returns an error
ErrorsForNameAndType ==
    [][OptionStep =>
          /\ ocall'.name \notin KnownOptions <=> ocall'.err = "ErrBadOption"
          /\ (/\ ocall'.name \in KnownOptions
              /\ ocall'.v.t \notin SupportedTypes(ocall'.name)) =>
                ocall'.err = "ErrBadValue"
          /\ ocall'.err # "nil" =>
                \A o \in DOMAIN flw \ {"format", "header", "footer"} :
                    flw'[o] = flw[o]]_vars

\* the timer of write loop l fires
TickStep(l) == ticks' = ticks + 1 /\ loop[l].pc = "select" /\ loop'[l].pc = "rot_seek"

\* C40: every time the rotation timer fires, the next rotation instant is
\* moved strictly later than the instant that just fired, whatever way the
\* cycle was set, the value the writer was constructed with included
C40_TickMovesLater ==
    [][\A l \in LoopIds : TickStep(l) => loop'[l].nrt > loop[l].nrt]_vars

\* what does hold: the timer adds f.cycle as it reads it, so the instant
\* moves later when the writer was constructed with a cycle of 2 or more and
\* no SetOption("cycle") call is between its store and its replacement
Settled_TickMovesLater ==
    [][\A l \in LoopIds :
          (TickStep(l) /\ cfg.dcycle >= 2 /\ setter # "clamp")
             => loop'[l].nrt > loop[l].nrt]_vars

\* a writer constructed with the default of one day, whose cycle is read by
\* the timer between the store and the replacement of a SetOption call
Default_TickMovesLater ==
    [][\A l \in LoopIds :
          (TickStep(l) /\ cfg.dcycle = CycleReset)
             => loop'[l].nrt > loop[l].nrt]_vars

\* a writer that no SetOption call is made on
Unset_TickMovesLater ==
    [][\A l \in LoopIds :
          (TickStep(l) /\ nsets = 0) => loop'[l].nrt > loop[l].nrt]_vars


====
